---- MODULE Spec2Model ----
(***************************************************************************)
(* Reconciliation and scoring engine of the media billing backend          *)
(* (services/invoice_reconciliation.py).                                   *)
(*                                                                         *)
(* Representation                                                          *)
(*   - Python None is None == <<>>, a present value v is Some(v) == <<v>>. *)
(*   - A Python str is a sequence of one-character strings.                *)
(*   - Numeric field values are integers.                                  *)
(*   - A float that the code compares or rounds is kept as an exact        *)
(*     fraction <<n, d>> (d > 0) until the code rounds it:                 *)
(*       difference_percent (round(.., 2))  -> integer hundredths of 1%    *)
(*       overall_score      (round(.., 3))  -> integer thousandths         *)
(*     string_threshold is an integer number of hundredths (80 = 0.8) and  *)
(*     number_tolerance an integer percentage.                             *)
(*     Comparisons are made on the exact values; where a rounded value     *)
(*     sits exactly on a rounding tie the float's side is tie_up.          *)
(*   - Field weights are doubled (3.0 -> 6, 2.5 -> 5, ...) so that they    *)
(*     are integers; the weighted mean is unchanged by the scaling.        *)
(***************************************************************************)
EXTENDS Integers, Sequences, FiniteSets, TLC

VARIABLES pc, tie_up, string_threshold, number_tolerance,
          ext_item, map_item, match_result,
          extracted_data, mapping_data, results, best_matches

\* get_discrepancy_severity: its argument and its return value
VARIABLES percent_diff, severity

matchingVars == <<string_threshold, number_tolerance, ext_item, map_item,
                  match_result, extracted_data, mapping_data, results, best_matches>>

severityVars == <<percent_diff, severity>>

\* calculate_vendor_score: the report files of the output folder (None when
\* the folder does not exist), the vendor_name argument and the outcome
VARIABLES csv_files, vendor_name, vendor_result

vendorVars == <<csv_files, vendor_name, vendor_result>>

\* parse_number / parse_currency / normalize_mapping_data: the argument and
\* the outcome
VARIABLES value, parsed

parseVars == <<value, parsed>>

\* calculate_trust_score / generate_discrepancy_report: the fuzzy_matches
\* argument, the vendor name given to the report, and what they return
VARIABLES fuzzy_matches, report_vendor, trust_score, df

reportVars == <<fuzzy_matches, report_vendor, trust_score, df>>

\* run_invoice_reconciliation: the clock in ticks, the mapping folder, the
\* report files of the output folder by path, the number of completed
\* saves, and the outcome of the last run
VARIABLES now, mapping_folder, output_folder, saves, run_result

runVars == <<now, mapping_folder, output_folder, saves, run_result>>

otherVars == <<parseVars, reportVars, runVars>>

vars == <<pc, tie_up, matchingVars, severityVars, vendorVars, otherVars>>

None == <<>>
Some(v) == <<v>>
Val(o) == o[1]

\* ------------------------------------------------------------------------
\* Integer and fraction helpers
\* ------------------------------------------------------------------------
Abs(x) == IF x < 0 THEN -x ELSE x

Max(x, y) == IF x >= y THEN x ELSE y

RECURSIVE Gcd(_, _)
Gcd(x, y) == IF y = 0 THEN x ELSE Gcd(y, x % y)

\* round(p / q) to the nearest integer, q > 0.  Python rounds the binary
\* float, which on an exact decimal tie lies just above or just below the
\* tie; tie_up is the side on which it falls, and both sides are explored.
RoundDiv(p, q) ==
    LET f == p \div q
        r == p - f * q
    IN  IF 2 * r < q THEN f
        ELSE IF 2 * r > q THEN f + 1
        ELSE IF tie_up THEN f + 1 ELSE f

Frac(n, d) ==
    LET g == Gcd(Abs(n), d)
    IN  IF g = 0 THEN <<0, 1>> ELSE <<n \div g, d \div g>>

\* sum over the least common denominator, so that products stay small
FracAdd(x, y) ==
    LET l == (x[2] \div Gcd(x[2], y[2])) * y[2]
    IN  Frac(x[1] * (l \div x[2]) + y[1] * (l \div y[2]), l)

FracMul(x, k) == Frac(x[1] * k, x[2])

\* ------------------------------------------------------------------------
\* str.strip(), str.lower(), difflib.SequenceMatcher(None, a, b).ratio()
\* ------------------------------------------------------------------------
Lower(c) ==
    CASE c = "A" -> "a"
      [] c = "B" -> "b"
      [] c = "C" -> "c"
      [] c = "S" -> "s"
      [] OTHER -> c

IsSpace(c) == c = " "

RECURSIVE LStrip(_)
LStrip(s) == IF s # <<>> /\ IsSpace(Head(s)) THEN LStrip(Tail(s)) ELSE s

RECURSIVE RStrip(_)
RStrip(s) ==
    IF s # <<>> /\ IsSpace(s[Len(s)]) THEN RStrip(SubSeq(s, 1, Len(s) - 1)) ELSE s

Strip(s) == RStrip(LStrip(s))

ToLower(s) == [i \in 1..Len(s) |-> Lower(s[i])]

\* length of the common run of a[i..ahi] and b[j..bhi]
RECURSIVE RunLen(_, _, _, _, _, _)
RunLen(a, i, ahi, b, j, bhi) ==
    IF i <= ahi /\ j <= bhi /\ a[i] = b[j]
    THEN 1 + RunLen(a, i + 1, ahi, b, j + 1, bhi)
    ELSE 0

\* SequenceMatcher.find_longest_match without junk: the longest block, of
\* those the one starting earliest in a, of those the one earliest in b
find_longest_match(a, alo, ahi, b, blo, bhi) ==
    LET runs == {<<i, j, RunLen(a, i, ahi, b, j, bhi)>> : i \in alo..ahi, j \in blo..bhi}
        longest == {r \in runs : \A q \in runs : q[3] <= r[3]}
        first == CHOOSE r \in longest :
                    \A q \in longest : r[1] < q[1] \/ (r[1] = q[1] /\ r[2] <= q[2])
    IN  IF runs = {} THEN <<alo, blo, 0>>
        ELSE IF first[3] = 0 THEN <<alo, blo, 0>>
        ELSE first

\* SequenceMatcher.get_matching_blocks: total size of the matching blocks
RECURSIVE MatchingSize(_, _, _, _, _, _)
MatchingSize(a, alo, ahi, b, blo, bhi) ==
    LET m == find_longest_match(a, alo, ahi, b, blo, bhi)
    IN  IF m[3] = 0 THEN 0
        ELSE m[3]
             + MatchingSize(a, alo, m[1] - 1, b, blo, m[2] - 1)
             + MatchingSize(a, m[1] + m[3], ahi, b, m[2] + m[3], bhi)

\* SequenceMatcher.ratio(): 2.0 * matches / (len(a) + len(b)), 1.0 when both empty
Ratio(a, b) ==
    IF Len(a) + Len(b) = 0 THEN <<1, 1>>
    ELSE Frac(2 * MatchingSize(a, 1, Len(a), b, 1, Len(b)), Len(a) + Len(b))

fuzzy_string_match(str1, str2) ==
    IF str1 = None \/ str2 = None THEN <<0, 1>>
    ELSE Ratio(ToLower(Strip(Val(str1))), ToLower(Strip(Val(str2))))

\* similarity >= t / 100
SimAtLeast(sim, t) == sim[1] * 100 >= t * sim[2]

\* similarity > 0.5
SimAboveHalf(sim) == 2 * sim[1] > sim[2]

\* ------------------------------------------------------------------------
\* fuzzy_number_match / get_discrepancy_severity
\* ------------------------------------------------------------------------

\* plausible slip: < instead of <=
WithinTolerance_Strict(difference, base_value, tolerance_percent) ==
    IF base_value = 0
    THEN (IF difference = 0 THEN 0 ELSE 100) < tolerance_percent
    ELSE difference * 100 < tolerance_percent * base_value

\* difference_percent <= tolerance_percent, on the unrounded value:
\* base = 0: 0.0 when the difference is 0, else 100.0;
\* otherwise (difference / base) * 100
WithinTolerance(difference, base_value, tolerance_percent) ==
    IF base_value = 0
    THEN (IF difference = 0 THEN 0 ELSE 100) <= tolerance_percent
    ELSE difference * 100 <= tolerance_percent * base_value

\* round(difference_percent, 2), in hundredths of a percent
RoundedPercent(difference, base_value) ==
    IF base_value = 0
    THEN (IF difference = 0 THEN 0 ELSE 10000)
    ELSE LET g == Gcd(difference, base_value)
         IN  RoundDiv((difference \div g) * 10000, base_value \div g)

\* plausible slip: the smaller magnitude is taken as the base
BaseValue_Min(num1, num2) == IF Abs(num1) <= Abs(num2) THEN Abs(num1) ELSE Abs(num2)

BaseValue(num1, num2) == Max(Abs(num1), Abs(num2))

fuzzy_number_match(num1, num2, tolerance_percent) ==
    IF num1 = None \/ num2 = None
    THEN [is_match |-> FALSE, difference |-> None,
          difference_percent |-> None, within_tolerance |-> FALSE]
    ELSE LET difference == Abs(Val(num1) - Val(num2))
             base_value == BaseValue(Val(num1), Val(num2))
             within_tolerance == WithinTolerance(difference, base_value, tolerance_percent)
         IN  [is_match |-> within_tolerance,
              difference |-> Some(difference),
              difference_percent |-> Some(RoundedPercent(difference, base_value)),
              within_tolerance |-> within_tolerance]

\* plausible slip: <= puts each boundary value in the lower class
get_discrepancy_severity_Inclusive(p) ==
    IF p <= 100 THEN "LOW"
    ELSE IF p <= 500 THEN "MEDIUM"
    ELSE IF p <= 1000 THEN "HIGH"
    ELSE "CRITICAL"

\* p: percent_diff in hundredths of a percent
get_discrepancy_severity(p) ==
    IF p < 100 THEN "LOW"
    ELSE IF p < 500 THEN "MEDIUM"
    ELSE IF p < 1000 THEN "HIGH"
    ELSE "CRITICAL"

\* ------------------------------------------------------------------------
\* compare_line_items_fuzzy
\* ------------------------------------------------------------------------
Fields == {"line_id", "campaign_name", "insertion_order_id",
           "booked_impressions", "billed_impressions", "clicks", "net_cost",
           "gross_revenue", "net_revenue", "ad_unit", "format", "geo"}

\* numerical_fields, in dict order, weights doubled
numerical_fields ==
    << <<"booked_impressions", 4>>, <<"billed_impressions", 5>>,
       <<"clicks", 3>>, <<"net_cost", 5>>,
       <<"gross_revenue", 4>>, <<"net_revenue", 4>> >>

\* text_fields, in dict order, weights doubled
text_fields == << <<"ad_unit", 2>>, <<"format", 2>>, <<"geo", 2>> >>

\* weight of campaign_name and of insertion_order_id (3.0), doubled
IdentityWeight == 6

\* the fixed insertion_order_id threshold 0.9, in hundredths
IoThreshold == 90

\* dict.get(field): None when the key is absent
Get(item, field) == item[field]

EmptyAcc == [scores |-> <<>>, matched_fields |-> <<>>, discrepancies |-> <<>>]

\* if similarity >= threshold: matched_fields.append, scores.append
IdentityFieldResult(acc, field, similarity, threshold) ==
    IF SimAtLeast(similarity, threshold)
    THEN [acc EXCEPT
            !.matched_fields = Append(@, field),
            !.scores = Append(@, [field |-> field, score |-> similarity,
                                  weight |-> IdentityWeight])]
    ELSE acc

\* campaign_name and insertion_order_id: matched when similarity >= threshold
IdentityFieldStep(acc, field, ext_value, map_value, threshold) ==
    IdentityFieldResult(acc, field, fuzzy_string_match(ext_value, map_value), threshold)

NumericDiscrepancy(field, ext_value, map_value, match) ==
    [field |-> field, extracted_value |-> ext_value, mapping_value |-> map_value,
     difference |-> match.difference,
     difference_percent |-> match.difference_percent,
     similarity |-> None,
     severity |-> get_discrepancy_severity(Val(match.difference_percent))]

\* what the loop body does with match_result: a matched field scored
\* 1 - difference_percent / 100, or a discrepancy
NumericFieldResult(acc, field, weight, ext_value, map_value, match) ==
    IF match.within_tolerance
    THEN [acc EXCEPT
            !.matched_fields = Append(@, field),
            !.scores = Append(@, [field |-> field,
                 score |-> Frac(10000 - Val(match.difference_percent), 10000),
                 weight |-> weight])]
    ELSE [acc EXCEPT
            !.discrepancies =
                Append(@, NumericDiscrepancy(field, ext_value, map_value, match))]

\* plausible slip: an absent value is read as 0 (.get(field, 0)) and compared
NumericFieldStep_NoneAsZero(acc, field, weight, ext_value, map_value, tolerance) ==
    LET e == IF ext_value = None THEN Some(0) ELSE ext_value
        m == IF map_value = None THEN Some(0) ELSE map_value
    IN  NumericFieldResult(acc, field, weight, e, m, fuzzy_number_match(e, m, tolerance))

\* body of the loop over numerical_fields
NumericFieldStep(acc, field, weight, ext_value, map_value, tolerance) ==
    IF ext_value # None /\ map_value # None
    THEN NumericFieldResult(acc, field, weight, ext_value, map_value,
                            fuzzy_number_match(ext_value, map_value, tolerance))
    ELSE acc

\* plausible slip: a similarity of exactly 0.5 is reported too
TextFieldResult_HalfInclusive(acc, field, weight, ext_value, map_value, similarity, threshold) ==
    IF SimAtLeast(similarity, threshold)
    THEN [acc EXCEPT
            !.matched_fields = Append(@, field),
            !.scores = Append(@, [field |-> field, score |-> similarity,
                                  weight |-> weight])]
    ELSE IF 2 * similarity[1] >= similarity[2]
    THEN [acc EXCEPT
            !.discrepancies = Append(@,
                [field |-> field, extracted_value |-> ext_value,
                 mapping_value |-> map_value,
                 difference |-> None, difference_percent |-> None,
                 similarity |-> Some(RoundDiv(similarity[1] * 100, similarity[2])),
                 severity |-> "LOW"])]
    ELSE acc

\* matched at similarity >= threshold, a LOW discrepancy (similarity rounded
\* to hundredths) above 0.5, otherwise nothing
TextFieldResult(acc, field, weight, ext_value, map_value, similarity, threshold) ==
    IF SimAtLeast(similarity, threshold)
    THEN [acc EXCEPT
            !.matched_fields = Append(@, field),
            !.scores = Append(@, [field |-> field, score |-> similarity,
                                  weight |-> weight])]
    ELSE IF SimAboveHalf(similarity)
    THEN [acc EXCEPT
            !.discrepancies = Append(@,
                [field |-> field, extracted_value |-> ext_value,
                 mapping_value |-> map_value,
                 difference |-> None, difference_percent |-> None,
                 similarity |-> Some(RoundDiv(similarity[1] * 100, similarity[2])),
                 severity |-> "LOW"])]
    ELSE acc

\* body of the loop over text_fields
TextFieldStep(acc, field, weight, ext_value, map_value, threshold) ==
    TextFieldResult(acc, field, weight, ext_value, map_value,
                    fuzzy_string_match(ext_value, map_value), threshold)

RECURSIVE NumericLoop(_, _, _, _, _)
NumericLoop(acc, k, extracted, mapping, tolerance) ==
    IF k > Len(numerical_fields) THEN acc
    ELSE NumericLoop(
           NumericFieldStep(acc, numerical_fields[k][1], numerical_fields[k][2],
                            Get(extracted, numerical_fields[k][1]),
                            Get(mapping, numerical_fields[k][1]), tolerance),
           k + 1, extracted, mapping, tolerance)

RECURSIVE TextLoop(_, _, _, _, _)
TextLoop(acc, k, extracted, mapping, threshold) ==
    IF k > Len(text_fields) THEN acc
    ELSE TextLoop(
           TextFieldStep(acc, text_fields[k][1], text_fields[k][2],
                         Get(extracted, text_fields[k][1]),
                         Get(mapping, text_fields[k][1]), threshold),
           k + 1, extracted, mapping, threshold)

RECURSIVE SumWeighted(_, _)
SumWeighted(scores, k) ==
    IF k > Len(scores) THEN <<0, 1>>
    ELSE FracAdd(FracMul(scores[k].score, scores[k].weight), SumWeighted(scores, k + 1))

RECURSIVE SumWeight(_, _)
SumWeight(scores, k) ==
    IF k > Len(scores) THEN 0 ELSE scores[k].weight + SumWeight(scores, k + 1)

\* total_weighted_score / total_weight, rounded to thousandths
WeightedMean(total_weighted_score, total_weight) ==
    RoundDiv(total_weighted_score[1] * 1000, total_weighted_score[2] * total_weight)

\* plausible slip: the weighted sum is divided by the weight of the whole
\* table (43 = doubled sum of all weights) instead of the scored fields
OverallScore_FullWeight(scores) ==
    IF scores # <<>> THEN WeightedMean(SumWeighted(scores, 1), 43) ELSE 0

\* round(overall_score, 3) in thousandths: weighted mean over the scored fields
OverallScore(scores) ==
    IF scores # <<>>
    THEN WeightedMean(SumWeighted(scores, 1), SumWeight(scores, 1))
    ELSE 0

\* the returned dict
MatchResult(acc) ==
    [overall_score |-> OverallScore(acc.scores),
     matched_fields |-> acc.matched_fields,
     discrepancies |-> acc.discrepancies,
     field_scores |-> [k \in 1..Len(acc.scores) |->
                         <<acc.scores[k].field,
                           RoundDiv(acc.scores[k].score[1] * 100, acc.scores[k].score[2])>>]]

compare_line_items_fuzzy(extracted, mapping, threshold, tolerance) ==
    MatchResult(
      TextLoop(
        NumericLoop(
          IdentityFieldStep(
            IdentityFieldStep(EmptyAcc, "campaign_name",
                              Get(extracted, "campaign_name"),
                              Get(mapping, "campaign_name"), threshold),
            "insertion_order_id",
            Get(extracted, "insertion_order_id"),
            Get(mapping, "insertion_order_id"), IoThreshold),
          1, extracted, mapping, tolerance),
        1, extracted, mapping, threshold))

\* ------------------------------------------------------------------------
\* find_fuzzy_matches
\* ------------------------------------------------------------------------

\* best_score >= 0.7, in thousandths
MatchThreshold == 700

NoBest == [best_match |-> None, best_score |-> 0]

BestMatchRecord(ext, mapping, map, match) ==
    [mapping_file |-> mapping.source_file,
     extracted_line |-> Get(ext, "line_id"),
     mapping_line |-> Get(map, "line_id"),
     campaign |-> Get(ext, "campaign_name"),
     overall_score |-> match.overall_score,
     match_details |-> match]

\* plausible slip: >= keeps the last of several equally good candidates
KeepIfBetter_OrEqual(best, ext, mapping, map, match) ==
    IF match.overall_score >= best.best_score
    THEN [best_match |-> Some(BestMatchRecord(ext, mapping, map, match)),
          best_score |-> match.overall_score]
    ELSE best

\* if match_result['overall_score'] > best_score: replace the best so far
KeepIfBetter(best, ext, mapping, map, match) ==
    IF match.overall_score > best.best_score
    THEN [best_match |-> Some(BestMatchRecord(ext, mapping, map, match)),
          best_score |-> match.overall_score]
    ELSE best

\* body of the inner loop: one candidate against the best so far
ConsiderCandidate(best, ext, mapping, map, threshold, tolerance) ==
    KeepIfBetter(best, ext, mapping, map,
                 compare_line_items_fuzzy(ext, map, threshold, tolerance))

\* for mapping in mapping_data: for map_item in mapping['line_items']
RECURSIVE BestMatchLoop(_, _, _, _, _, _, _)
BestMatchLoop(best, ext, mappings, m, k, threshold, tolerance) ==
    IF m > Len(mappings) THEN best
    ELSE IF k > Len(mappings[m].line_items)
    THEN BestMatchLoop(best, ext, mappings, m + 1, 1, threshold, tolerance)
    ELSE BestMatchLoop(
           ConsiderCandidate(best, ext, mappings[m], mappings[m].line_items[k],
                             threshold, tolerance),
           ext, mappings, m, k + 1, threshold, tolerance)

Unmatched(ext, best) ==
    [extracted_line |-> Get(ext, "line_id"),
     campaign |-> Get(ext, "campaign_name"),
     io |-> Get(ext, "insertion_order_id"),
     best_score |-> best.best_score,
     reason |-> "No strong match found in mapping files"]

WithDiscrepancies(bm) ==
    [mapping_file |-> bm.mapping_file, extracted_line |-> bm.extracted_line,
     mapping_line |-> bm.mapping_line, campaign |-> bm.campaign,
     overall_score |-> bm.overall_score, match_details |-> bm.match_details,
     discrepancies |-> bm.match_details.discrepancies]

\* plausible slip: every fuzzy match is also filed as a discrepancy
FileMatch_AlwaysDiscrepant(res, bm) ==
    [res EXCEPT !.fuzzy_matches = Append(@, bm),
                !.potential_discrepancies = Append(@, WithDiscrepancies(bm))]

\* results['fuzzy_matches'].append(best_match), and potential_discrepancies
\* too when the match has discrepancies
FileMatch(res, bm) ==
    IF bm.match_details.discrepancies # <<>>
    THEN [res EXCEPT !.fuzzy_matches = Append(@, bm),
                     !.potential_discrepancies = Append(@, WithDiscrepancies(bm))]
    ELSE [res EXCEPT !.fuzzy_matches = Append(@, bm)]

\* plausible slip: an item without a kept candidate is reported as unmatched
Classify_ReportNoCandidate(res, ext, best) ==
    IF best.best_match # None /\ best.best_score >= MatchThreshold
    THEN FileMatch(res, Val(best.best_match))
    ELSE [res EXCEPT !.no_match_found = Append(@, Unmatched(ext, best))]

\* the bucketing of one extracted item after its search (if best_match: ...)
Classify(res, ext, best) ==
    IF best.best_match # None
    THEN IF best.best_score >= MatchThreshold
         THEN FileMatch(res, Val(best.best_match))
         ELSE [res EXCEPT !.no_match_found = Append(@, Unmatched(ext, best))]
    ELSE res

EmptyResults == [fuzzy_matches |-> <<>>, potential_discrepancies |-> <<>>,
                 no_match_found |-> <<>>]

\* the best_match / best_score left by the search for one extracted item
BestMatchOf(ext, mappings, threshold, tolerance) ==
    BestMatchLoop(NoBest, ext, mappings, 1, 1, threshold, tolerance)

\* for ext_item in extracted_items: bucket each item by the outcome of its
\* search, in list order
RECURSIVE ClassifyAll(_, _, _, _)
ClassifyAll(res, items, i, bests) ==
    IF i > Len(items) THEN res
    ELSE ClassifyAll(Classify(res, items[i], bests[i]), items, i + 1, bests)

\* the search of every extracted item, in list order
BestMatches(items, mappings, threshold, tolerance) ==
    [i \in 1..Len(items) |-> BestMatchOf(items[i], mappings, threshold, tolerance)]

find_fuzzy_matches(extracted, mappings, threshold, tolerance) ==
    ClassifyAll(EmptyResults, extracted.line_items, 1,
                BestMatches(extracted.line_items, mappings, threshold, tolerance))

\* ------------------------------------------------------------------------
\* Inputs
\* ------------------------------------------------------------------------
SummerSale == <<"S", "u", "m", "m", "e", "r", " ", "S", "a", "l", "e">>

ComparedFields == Fields \ {"line_id"}

NumericFieldNames == {numerical_fields[k][1] : k \in 1..Len(numerical_fields)}

TextFieldNames == {text_fields[k][1] : k \in 1..Len(text_fields)}

\* three fully populated line items; every item handed to
\* compare_line_items_fuzzy is one of them restricted to a set of keys
FullItemA ==
    [f \in Fields |->
       CASE f = "line_id" -> Some(1)
         [] f = "campaign_name" -> Some(SummerSale)
         [] f = "insertion_order_id" -> Some(<<"A", "1">>)
         [] f = "booked_impressions" -> Some(100)
         [] f = "billed_impressions" -> Some(1000000)
         [] f = "clicks" -> Some(100)
         [] f = "net_cost" -> Some(100)
         [] f = "gross_revenue" -> Some(100)
         [] f = "net_revenue" -> Some(1)
         [] f = "ad_unit" -> Some(<<"a", "b", "c", "d">>)
         [] f = "format" -> Some(<<"a", "b">>)
         [] f = "geo" -> Some(<<"a">>)]

FullItemB ==
    [f \in Fields |->
       CASE f = "line_id" -> Some(1)
         [] f = "campaign_name" -> Some(SummerSale)
         [] f = "insertion_order_id" -> Some(<<"A", "2">>)
         [] f = "booked_impressions" -> Some(95)
         [] f = "billed_impressions" -> Some(950000)
         [] f = "clicks" -> Some(94)
         [] f = "net_cost" -> Some(60)
         [] f = "gross_revenue" -> Some(0)
         [] f = "net_revenue" -> Some(-1)
         [] f = "ad_unit" -> Some(<<"a", "b", "c", "e">>)
         [] f = "format" -> Some(<<"a", "c">>)
         [] f = "geo" -> Some(<<" ", "A">>)]

FullItemC ==
    [f \in Fields |->
       CASE f = "line_id" -> Some(2)
         [] f = "campaign_name" -> Some(<<"s", "u", "m", "m", "e", "r", " ", "s", "a", "l", "e",
                                           " ", "2", "4">>)
         [] f = "insertion_order_id" -> Some(<<"a", "1">>)
         [] f = "booked_impressions" -> Some(99)
         [] f = "billed_impressions" -> Some(950500)
         [] f = "clicks" -> Some(0)
         [] f = "net_cost" -> Some(-100)
         [] f = "gross_revenue" -> Some(0)
         [] f = "net_revenue" -> Some(1)
         [] f = "ad_unit" -> Some(<<>>)
         [] f = "format" -> Some(<<"A", "B", " ">>)
         [] f = "geo" -> Some(<<"b">>)]

\* shares booked_impressions with FullItemA and nothing else; its
\* billed_impressions are 5.002% off those of FullItemA
FullItemD ==
    [f \in Fields |->
       CASE f = "line_id" -> Some(3)
         [] f = "campaign_name" -> Some(<<"x", "y", "z">>)
         [] f = "insertion_order_id" -> Some(<<"Q", "9">>)
         [] f = "booked_impressions" -> Some(100)
         [] f = "billed_impressions" -> Some(949980)
         [] f = "ad_unit" -> Some(<<"z", "z", "z", "z">>)
         [] f = "format" -> Some(<<"z", "z">>)
         [] f = "geo" -> Some(<<"z">>)
         [] OTHER -> Some(5)]

FullItems == {FullItemA, FullItemB, FullItemC, FullItemD}

\* the sets of keys an item may carry
PresentFieldSets ==
    {{}} \cup {{f} : f \in ComparedFields}
         \cup {{"campaign_name", "billed_impressions"},
               NumericFieldNames,
               ComparedFields \ NumericFieldNames,
               ComparedFields}

Restrict(item, present) ==
    [f \in Fields |-> IF f \in present \/ f = "line_id" THEN item[f] ELSE None]

CompareItems == {Restrict(v, p) : v \in FullItems, p \in PresentFieldSets}

\* string_threshold (hundredths) and number_tolerance (percent) offered
Thresholds == {60, 80}

Tolerances == {0, 5, 50, 200}

\* ------------------------------------------------------------------------
\* SpecCompare: one call of compare_line_items_fuzzy on a drawn pair
\* ------------------------------------------------------------------------
\* the variables of the other operations, at rest
SeverityIdle == percent_diff = None /\ severity = None

VendorIdle == csv_files = None /\ vendor_name = None /\ vendor_result = None

ParseIdle == value = None /\ parsed = None

ReportIdle ==
    /\ fuzzy_matches = None
    /\ report_vendor = None
    /\ trust_score = None
    /\ df = None

RunIdle ==
    /\ now = 0
    /\ mapping_folder = None
    /\ output_folder = <<>>
    /\ saves = 0
    /\ run_result = None

OtherIdle == ParseIdle /\ ReportIdle /\ RunIdle

InitCompare ==
    /\ pc = "start"
    /\ SeverityIdle
    /\ VendorIdle
    /\ OtherIdle
    /\ tie_up \in BOOLEAN
    /\ string_threshold \in Thresholds
    /\ number_tolerance \in Tolerances
    /\ ext_item \in CompareItems
    /\ map_item \in CompareItems
    /\ match_result = None
    /\ extracted_data = [line_items |-> <<>>]
    /\ mapping_data = <<>>
    /\ results = EmptyResults
    /\ best_matches = <<>>

CompareLineItemsFuzzy ==
    /\ pc = "start"
    /\ match_result' = Some(compare_line_items_fuzzy(ext_item, map_item,
                                 string_threshold, number_tolerance))
    /\ pc' = "compared"
    /\ UNCHANGED <<tie_up, string_threshold, number_tolerance, ext_item, map_item,
                   extracted_data, mapping_data, results, best_matches, severityVars, vendorVars,
                   otherVars>>

NextCompare == CompareLineItemsFuzzy

SpecCompare == InitCompare /\ [][NextCompare]_vars

\* ------------------------------------------------------------------------
\* Spec: one call of find_fuzzy_matches on drawn extracted and mapping data
\* ------------------------------------------------------------------------
MaxExtracted == 2
MaxMappings == 2
MaxCandidates == 3

MatchItem(campaign, billed) ==
    [f \in Fields |->
       CASE f = "campaign_name" -> campaign
         [] f = "billed_impressions" -> billed
         [] OTHER -> None]

MatchItems == {MatchItem(Some(<<"a", "b">>), Some(100)),
               MatchItem(Some(<<"a", "b">>), Some(60)),
               MatchItem(Some(<<"a", "c">>), Some(60))}

\* candidates on the mapping side
MapItems == {MatchItem(Some(<<"a", "b">>), Some(100)),
             MatchItem(Some(<<"a", "b">>), Some(60))}

MatchTolerances == {5, 50}

SeqsUpTo(S, n) == UNION {[1..k -> S] : k \in 0..n}

\* line_id is sequential from 1 on both sides (extractor, normalizer)
Numbered(items) == [k \in 1..Len(items) |-> [items[k] EXCEPT !["line_id"] = Some(k)]]

ExtractedInputs ==
    {[line_items |-> Numbered(s)] : s \in SeqsUpTo(MatchItems, MaxExtracted)}

\* the ways to cut a list of candidates into r consecutive records, some of
\* them possibly without line items: owner[k] is the record of candidate k
Splits(s, r) ==
    {owner \in [1..Len(s) -> 1..r] :
        \A k \in 1..(Len(s) - 1) : owner[k] <= owner[k + 1]}

\* normalized mapping records; source_file is the position of the file in
\* the mapping folder listing, so no two records share it
RecordsOf(s, r, owner) ==
    [m \in 1..r |->
        [source_file |-> m,
         line_items |-> Numbered(SubSeq(s,
             Cardinality({k \in 1..Len(s) : owner[k] < m}) + 1,
             Cardinality({k \in 1..Len(s) : owner[k] <= m})))]]

\* every corpus of at most MaxMappings records holding at most
\* MaxCandidates line items in all
MappingInputs ==
    UNION {UNION {{RecordsOf(s, r, owner) : owner \in Splits(s, r)} :
                     r \in 0..MaxMappings} :
              s \in SeqsUpTo(MapItems, MaxCandidates)}

NoItem == [f \in Fields |-> None]

\* no score drawn here sits on a rounding tie, so one side is enough
Init ==
    /\ pc = "start"
    /\ SeverityIdle
    /\ VendorIdle
    /\ OtherIdle
    /\ tie_up = FALSE
    /\ string_threshold = 80
    /\ number_tolerance \in MatchTolerances
    /\ extracted_data \in ExtractedInputs
    /\ mapping_data \in MappingInputs
    /\ results = EmptyResults
    /\ best_matches = <<>>
    /\ ext_item = NoItem
    /\ map_item = NoItem
    /\ match_result = None

FindFuzzyMatches ==
    /\ pc = "start"
    /\ best_matches' = BestMatches(extracted_data.line_items, mapping_data,
                                   string_threshold, number_tolerance)
    /\ results' = ClassifyAll(EmptyResults, extracted_data.line_items, 1, best_matches')
    /\ pc' = "matched"
    /\ UNCHANGED <<tie_up, string_threshold, number_tolerance, ext_item, map_item,
                   match_result, extracted_data, mapping_data, severityVars, vendorVars,
                   otherVars>>

Next == FindFuzzyMatches

Spec == Init /\ [][Next]_vars

\* ------------------------------------------------------------------------
\* Properties of find_fuzzy_matches (checked under Spec)
\* ------------------------------------------------------------------------
Items == extracted_data.line_items

InFuzzy(i) ==
    \E k \in 1..Len(results.fuzzy_matches) :
        results.fuzzy_matches[k].extracted_line = Items[i]["line_id"]

InDiscrepancies(i) ==
    \E k \in 1..Len(results.potential_discrepancies) :
        results.potential_discrepancies[k].extracted_line = Items[i]["line_id"]

InNoMatch(i) ==
    \E k \in 1..Len(results.no_match_found) :
        /\ results.no_match_found[k].extracted_line = Items[i]["line_id"]
        /\ results.no_match_found[k].reason # ""

\* the candidates of the cross product, as <<record index, line index>>
Candidates ==
    UNION {{<<m, k>> : k \in 1..Len(mapping_data[m].line_items)} :
              m \in 1..Len(mapping_data)}

Before(c, e) == c[1] < e[1] \/ (c[1] = e[1] /\ c[2] < e[2])

ScoreOf(i, c) ==
    compare_line_items_fuzzy(Items[i], mapping_data[c[1]].line_items[c[2]],
                             string_threshold, number_tolerance).overall_score

\* every candidate paired with its overall score against item i
ScoredCandidates(i) == {<<c, ScoreOf(i, c)>> : c \in Candidates}

\* the scored candidates whose overall score no other candidate exceeds
BestCandidates(i) ==
    LET scored == ScoredCandidates(i)
    IN  {q \in scored : \A e \in scored : e[2] <= q[2]}

\* C1: after find_fuzzy_matches every extracted line item is in exactly one
\* bucket: fuzzy_matches only, fuzzy_matches and potential_discrepancies, or
\* no_match_found; none is missing from all buckets
C1_EveryItemInExactlyOneBucket ==
    pc = "matched" =>
        \A i \in 1..Len(Items) :
            \/ InFuzzy(i) /\ ~InNoMatch(i)
            \/ ~InFuzzy(i) /\ ~InDiscrepancies(i) /\ InNoMatch(i)

\* C2: whenever a candidate exists and the best overall score over all
\* candidates is below 0.7 (0.0 included), the item is in no_match_found
\* with a reason string
C2_WeakBestScoreIsUnmatched ==
    pc = "matched" =>
        \A i \in 1..Len(Items) :
            (\E q \in BestCandidates(i) : q[2] < MatchThreshold) => InNoMatch(i)

\* C3: with an empty mapping corpus, or one without line items, the call
\* completes and every extracted item is in none of the three buckets
C3_NoCandidatesDropsItem ==
    (pc = "matched" /\ Candidates = {}) =>
        /\ results = EmptyResults
        /\ \A i \in 1..Len(Items) : ~InFuzzy(i) /\ ~InDiscrepancies(i) /\ ~InNoMatch(i)

C3_Witness ==
    /\ pc = "matched"
    /\ Len(Items) >= 1
    /\ Len(mapping_data) >= 1
    /\ Candidates = {}
    /\ results = EmptyResults

\* C4: an item whose best candidate scores >= 0.7 is in fuzzy_matches, and it
\* is in potential_discrepancies iff that candidate's discrepancy list is
\* non-empty; every potential_discrepancies entry is a fuzzy_matches entry
C4_MatchedAndDiscrepantIffDiscrepancies ==
    pc = "matched" =>
        /\ \A i \in 1..Len(Items) :
              LET best == BestCandidates(i)
              IN  (\E q \in best : q[2] >= MatchThreshold) =>
                      \E k \in 1..Len(results.fuzzy_matches) :
                          LET fm == results.fuzzy_matches[k]
                          IN  /\ fm.extracted_line = Items[i]["line_id"]
                              /\ \E q \in best :
                                    q[1] = <<fm.mapping_file, Val(fm.mapping_line)>>
                              /\ InDiscrepancies(i) <=>
                                    fm.match_details.discrepancies # <<>>
        /\ \A d \in 1..Len(results.potential_discrepancies) :
              \E k \in 1..Len(results.fuzzy_matches) :
                  LET pd == results.potential_discrepancies[d]
                      fm == results.fuzzy_matches[k]
                  IN  /\ pd.extracted_line = fm.extracted_line
                      /\ pd.mapping_file = fm.mapping_file
                      /\ pd.mapping_line = fm.mapping_line
                      /\ pd.discrepancies = fm.match_details.discrepancies
                      /\ pd.discrepancies # <<>>

C4_Witness ==
    /\ pc = "matched"
    /\ Len(results.potential_discrepancies) >= 1
    /\ Len(results.fuzzy_matches) > Len(results.potential_discrepancies)

\* C5: the candidate kept for an extracted item has the greatest overall
\* score of all mapping line items of all mapping records, and among equal
\* greatest scores it is the one met first (records in list order, then
\* their line items in list order)
C5_KeptCandidateIsFirstBest ==
    pc = "matched" =>
        \A i \in 1..Len(Items) :
            best_matches[i].best_match # None =>
                LET bm == Val(best_matches[i].best_match)
                    kept == <<bm.mapping_file, Val(bm.mapping_line)>>
                    scored == ScoredCandidates(i)
                IN  /\ <<kept, bm.overall_score>> \in scored
                    /\ \A e \in scored : e[2] <= bm.overall_score
                    /\ \A e \in scored : Before(e[1], kept) => e[2] < bm.overall_score

C5_Witness ==
    /\ pc = "matched"
    /\ \E i \in 1..Len(Items) :
          /\ best_matches[i].best_match # None
          /\ LET bm == Val(best_matches[i].best_match)
                 kept == <<bm.mapping_file, Val(bm.mapping_line)>>
                 scored == ScoredCandidates(i)
             IN  /\ \E e \in scored : Before(kept, e[1]) /\ e[2] = bm.overall_score
                 /\ \E e \in scored : Before(e[1], kept) /\ e[2] < bm.overall_score

\* ------------------------------------------------------------------------
\* Properties of compare_line_items_fuzzy (checked under SpecCompare)
\* ------------------------------------------------------------------------
Result == Val(match_result)

Matched(f) == \E k \in 1..Len(Result.matched_fields) : Result.matched_fields[k] = f

Discrepant(f) == \E k \in 1..Len(Result.discrepancies) : Result.discrepancies[k].field = f

Scored(f) == \E k \in 1..Len(Result.field_scores) : Result.field_scores[k][1] = f

Severities == {"LOW", "MEDIUM", "HIGH", "CRITICAL"}

\* |a - b| / max(|a|, |b|) * 100 <= t, with both-zero 0% and one-zero 100%
PercentAtMost(a, b, t) ==
    IF a = 0 /\ b = 0 THEN 0 <= t
    ELSE Abs(a - b) * 100 <= t * Max(Abs(a), Abs(b))

ScenarioKeys == {"campaign_name", "billed_impressions"}

\* extracted {Summer Sale, 1,000,000} against mapping {Summer Sale, 950,000}
ScenarioA ==
    /\ pc = "compared"
    /\ number_tolerance = 5
    /\ ext_item = Restrict(FullItemA, ScenarioKeys)
    /\ map_item = Restrict(FullItemB, ScenarioKeys)

\* C6 as stated: scenario A at tolerance 5.0 gives a difference percent above
\* 5.0 and a HIGH billed_impressions discrepancy, and billed_impressions is
\* not a matched field
C6_ScenarioA_HighDiscrepancy ==
    ScenarioA =>
        /\ ~Matched("billed_impressions")
        /\ \E k \in 1..Len(Result.discrepancies) :
              /\ Result.discrepancies[k].field = "billed_impressions"
              /\ Result.discrepancies[k].severity = "HIGH"
              /\ Val(Result.discrepancies[k].difference_percent) > 500

\* C6 amended: in scenario A the difference percent is exactly 5.0
\* (50,000 of max(1,000,000, 950,000)), which is within the inclusive
\* tolerance: billed_impressions is a matched field scored 0.95, nothing is
\* recorded as a discrepancy and the overall score is 0.977
C6_ScenarioA_WithinTolerance ==
    ScenarioA =>
        /\ Result.matched_fields = <<"campaign_name", "billed_impressions">>
        /\ Result.discrepancies = <<>>
        /\ Result.field_scores = << <<"campaign_name", 100>>, <<"billed_impressions", 95>> >>
        /\ Result.overall_score = 977

C6_Witness == ScenarioA /\ Matched("billed_impressions")

\* C7: a numeric field that is non-null on both sides is in matched_fields
\* (and not a discrepancy) when its difference percent is <= number_tolerance,
\* and is a discrepancy with a severity (and not matched) when it exceeds it
C7_NumericFieldMatchedXorDiscrepant ==
    pc = "compared" =>
        \A f \in NumericFieldNames :
            (ext_item[f] # None /\ map_item[f] # None) =>
                IF PercentAtMost(Val(ext_item[f]), Val(map_item[f]), number_tolerance)
                THEN Matched(f) /\ ~Discrepant(f)
                ELSE /\ ~Matched(f)
                     /\ \E k \in 1..Len(Result.discrepancies) :
                           /\ Result.discrepancies[k].field = f
                           /\ Result.discrepancies[k].severity \in Severities
                     /\ Cardinality({k \in 1..Len(Result.discrepancies) :
                                       Result.discrepancies[k].field = f}) = 1

\* 1,000,000 against 950,500 at tolerance 5.0 is matched (4.95%), 100 against
\* 99 is matched (1%), 100 against 0 is a discrepancy (100%)
C7_Witness ==
    /\ pc = "compared"
    /\ number_tolerance = 5
    /\ ext_item["billed_impressions"] = Some(1000000)
    /\ map_item["billed_impressions"] = Some(950500)
    /\ Matched("billed_impressions")
    /\ ext_item["booked_impressions"] = Some(100)
    /\ map_item["booked_impressions"] = Some(99)
    /\ Matched("booked_impressions")
    /\ ext_item["clicks"] = Some(100)
    /\ map_item["clicks"] = Some(0)
    /\ Discrepant("clicks")

Without(item, f) == [item EXCEPT ![f] = None]

\* C8: a numeric field that is null on either side is neither matched nor a
\* discrepancy, has no field score, and the overall score is the one the
\* pair has with the field removed from both sides
C8_NullNumericFieldIgnored ==
    pc = "compared" =>
        \A f \in NumericFieldNames :
            (ext_item[f] = None \/ map_item[f] = None) =>
                /\ ~Matched(f)
                /\ ~Discrepant(f)
                /\ ~Scored(f)
                /\ Result.overall_score =
                     compare_line_items_fuzzy(Without(ext_item, f), Without(map_item, f),
                                              string_threshold, number_tolerance).overall_score

C8_Witness ==
    /\ pc = "compared"
    /\ ext_item["net_cost"] # None
    /\ map_item["net_cost"] = None
    /\ Matched("campaign_name")
    /\ Matched("billed_impressions")
    /\ ~Matched("net_cost") /\ ~Discrepant("net_cost") /\ ~Scored("net_cost")

\* C9: overall_score is in [0, 1] for every pair and every configuration,
\* values of opposite sign and tolerances above 100 percent included
C9_OverallScoreInUnitInterval ==
    pc = "compared" => (0 <= Result.overall_score /\ Result.overall_score <= 1000)

Identical == \A f \in ComparedFields : ext_item[f] = map_item[f]

Similarity(f) == fuzzy_string_match(ext_item[f], map_item[f])

\* C24: for each text field (ad_unit, format, geo): at similarity >=
\* string_threshold the field is matched and scored; at a similarity
\* strictly between 0.5 and string_threshold a LOW discrepancy is recorded
\* and nothing is scored; at similarity <= 0.5 the field is neither matched
\* nor reported
C24_TextFieldBands ==
    pc = "compared" =>
        \A f \in TextFieldNames :
            IF SimAtLeast(Similarity(f), string_threshold)
            THEN Matched(f) /\ Scored(f) /\ ~Discrepant(f)
            ELSE IF SimAboveHalf(Similarity(f))
            THEN /\ ~Matched(f) /\ ~Scored(f)
                 /\ Cardinality({k \in 1..Len(Result.discrepancies) :
                                   /\ Result.discrepancies[k].field = f
                                   /\ Result.discrepancies[k].severity = "LOW"}) = 1
            ELSE ~Matched(f) /\ ~Scored(f) /\ ~Discrepant(f)

\* the fields that count as matched
MatchedFields == {Result.matched_fields[k] : k \in 1..Len(Result.matched_fields)}

\* the mapping record holding the compared candidate alone
SingleCandidate == [source_file |-> 1, line_items |-> <<map_item>>]

\* the result of find_fuzzy_matches for the compared pair alone
PairResults ==
    Classify(EmptyResults, ext_item,
             KeepIfBetter(NoBest, ext_item, SingleCandidate, map_item, Result))

\* C26: overall_score is determined by the matched fields alone: it is the
\* score the pair has with every other field removed, so fields that fail to
\* match never lower it; a pair whose only matched field is one exactly
\* equal numeric field scores 1.0 and is filed as a fuzzy match, whatever
\* campaign_name and insertion_order_id are
C26_ScoreFromMatchedFieldsOnly ==
    pc = "compared" =>
        /\ Result.overall_score =
              compare_line_items_fuzzy(Restrict(ext_item, MatchedFields),
                                       Restrict(map_item, MatchedFields),
                                       string_threshold, number_tolerance).overall_score
        /\ (\E f \in NumericFieldNames :
                Result.matched_fields = <<f>> /\ ext_item[f] = map_item[f]) =>
              /\ Result.overall_score = 1000
              /\ Len(PairResults.fuzzy_matches) = 1

C26_Witness ==
    /\ pc = "compared"
    /\ ext_item = FullItemD
    /\ map_item = FullItemA
    /\ Similarity("campaign_name") = <<0, 1>>
    /\ Similarity("insertion_order_id") = <<0, 1>>
    /\ Result.matched_fields = <<"booked_impressions">>
    /\ Len(Result.discrepancies) = 5
    /\ Result.overall_score = 1000

C24_Witness ==
    /\ pc = "compared"
    /\ string_threshold = 80
    /\ Similarity("ad_unit") = <<3, 4>>
    /\ Discrepant("ad_unit") /\ ~Scored("ad_unit")
    /\ Similarity("format") = <<1, 2>>
    /\ ~Matched("format") /\ ~Discrepant("format")
    /\ Similarity("geo") = <<1, 1>>
    /\ Matched("geo") /\ Scored("geo")

\* ------------------------------------------------------------------------
\* SpecSeverity: one call of get_discrepancy_severity on a drawn percentage
\* ------------------------------------------------------------------------
\* largest percentage drawn, in hundredths of a percent
MaxPercentDiff == 1100

MatchingIdle ==
    /\ string_threshold = 80
    /\ number_tolerance = 5
    /\ ext_item = NoItem
    /\ map_item = NoItem
    /\ match_result = None
    /\ extracted_data = [line_items |-> <<>>]
    /\ mapping_data = <<>>
    /\ results = EmptyResults
    /\ best_matches = <<>>

InitSeverity ==
    /\ pc = "start"
    /\ tie_up = FALSE
    /\ MatchingIdle
    /\ VendorIdle
    /\ OtherIdle
    /\ percent_diff \in {Some(p) : p \in 0..MaxPercentDiff}
    /\ severity = None

GetDiscrepancySeverity ==
    /\ pc = "start"
    /\ severity' = Some(get_discrepancy_severity(Val(percent_diff)))
    /\ pc' = "classified"
    /\ UNCHANGED <<tie_up, matchingVars, percent_diff, vendorVars, otherVars>>

NextSeverity == GetDiscrepancySeverity

SpecSeverity == InitSeverity /\ [][NextSeverity]_vars

\* ------------------------------------------------------------------------
\* Properties of get_discrepancy_severity (checked under SpecSeverity)
\* ------------------------------------------------------------------------

\* C20: a difference percent p is LOW when p < 1, MEDIUM when 1 <= p < 5,
\* HIGH when 5 <= p < 10 and CRITICAL when p >= 10; exactly 1.0 is MEDIUM,
\* exactly 5.0 is HIGH and exactly 10.0 is CRITICAL
C20_SeverityBands ==
    pc = "classified" =>
        LET p == Val(percent_diff)
            sev == Val(severity)
        IN  /\ sev = "LOW" <=> p < 100
            /\ sev = "MEDIUM" <=> (100 <= p /\ p < 500)
            /\ sev = "HIGH" <=> (500 <= p /\ p < 1000)
            /\ sev = "CRITICAL" <=> p >= 1000
            /\ p = 100 => sev = "MEDIUM"
            /\ p = 500 => sev = "HIGH"
            /\ p = 1000 => sev = "CRITICAL"

C20_Witness ==
    /\ pc = "classified"
    /\ percent_diff = Some(1000)
    /\ severity = Some("CRITICAL")

\* ------------------------------------------------------------------------
\* calculate_vendor_score
\* ------------------------------------------------------------------------
\* A report file is [kind, rows]: kind "ok" when read_csv succeeds and the
\* frame has a 'Vendor Name' column, "no_vendor_column" when it reads but
\* lacks the column, "unreadable" when read_csv raises; rows are
\* [vendor, severity] in file order.

Clamp(x) == Max(0, IF x <= 100 THEN x ELSE 100)

\* severity_weights
SeverityWeight(sev) ==
    CASE sev = "CRITICAL" -> -15
      [] sev = "HIGH" -> -8
      [] sev = "MEDIUM" -> -4
      [] sev = "LOW" -> -1
      [] OTHER -> 0

\* the frames appended to all_data: files that fail to read or lack the
\* vendor column are skipped
RECURSIVE AllData(_, _)
AllData(files, i) ==
    IF i > Len(files) THEN <<>>
    ELSE IF files[i].kind = "ok"
    THEN <<files[i].rows>> \o AllData(files, i + 1)
    ELSE AllData(files, i + 1)

\* pd.concat(all_data, ignore_index=True)
RECURSIVE Concat(_, _)
Concat(frames, i) ==
    IF i > Len(frames) THEN <<>> ELSE frames[i] \o Concat(frames, i + 1)

\* the missing value read_csv gives for an empty or N/A cell
NaN == "<NaN>"

\* == on cell values: NaN is equal to nothing, itself included
CellEq(a, b) == a = b /\ a # NaN

\* combined_df[combined_df['Vendor Name'] == vendor]
RowsOf(rows, vendor) == SelectSeq(rows, LAMBDA row : CellEq(row.vendor, vendor))

\* Series.unique(): the distinct vendors in order of first appearance (the
\* missing values count as one value)
RECURSIVE Unique(_, _, _)
Unique(rows, i, seen) ==
    IF i > Len(rows) THEN seen
    ELSE IF \E k \in 1..Len(seen) : seen[k] = rows[i].vendor
    THEN Unique(rows, i + 1, seen)
    ELSE Unique(rows, i + 1, Append(seen, rows[i].vendor))

\* vendor_data['Severity'].value_counts().get(severity, 0)
RECURSIVE SeverityCount(_, _, _)
SeverityCount(rows, i, sev) ==
    IF i > Len(rows) THEN 0
    ELSE (IF rows[i].severity = sev THEN 1 ELSE 0) + SeverityCount(rows, i + 1, sev)

\* plausible slip: value_counts(normalize=True), the shares of the
\* severities instead of their counts
Deductions_Normalized(rows) ==
    IF rows = <<>> THEN 0
    ELSE (SeverityCount(rows, 1, "CRITICAL") * SeverityWeight("CRITICAL")
          + SeverityCount(rows, 1, "HIGH") * SeverityWeight("HIGH")
          + SeverityCount(rows, 1, "MEDIUM") * SeverityWeight("MEDIUM")
          + SeverityCount(rows, 1, "LOW") * SeverityWeight("LOW")) \div Len(rows)

Deductions(rows) ==
    SeverityCount(rows, 1, "CRITICAL") * SeverityWeight("CRITICAL")
    + SeverityCount(rows, 1, "HIGH") * SeverityWeight("HIGH")
    + SeverityCount(rows, 1, "MEDIUM") * SeverityWeight("MEDIUM")
    + SeverityCount(rows, 1, "LOW") * SeverityWeight("LOW")

\* plausible slip: the clamp is left out
VendorScore_Unclamped(rows) == 100 + Deductions(rows)

\* max(0, min(100, base_score + deductions))
VendorScore(rows) == Clamp(100 + Deductions(rows))

Grade(vendor_score) ==
    IF vendor_score >= 90 THEN "A (Excellent)"
    ELSE IF vendor_score >= 75 THEN "B (Good)"
    ELSE IF vendor_score >= 60 THEN "C (Fair)"
    ELSE IF vendor_score >= 40 THEN "D (Poor)"
    ELSE "F (Critical)"

\* what pd.read_csv(f)['Vendor Name'] raises on the first file, in list
\* order, that cannot be read or has no such column
IndexError(files) ==
    LET i == CHOOSE n \in 1..Len(files) :
                 files[n].kind # "ok" /\ \A k \in 1..(n - 1) : files[k].kind = "ok"
    IN  IF files[i].kind = "no_vendor_column" THEN "KeyError" ELSE "ReadError"

\* reports_analyzed re-reads every file of csv_files, the skipped ones
\* included, and indexes its 'Vendor Name' column: None when that raises
ReportsAnalyzed(files, vendor) ==
    IF \E i \in 1..Len(files) : files[i].kind # "ok"
    THEN None
    ELSE Some(Cardinality({i \in 1..Len(files) :
                 \E k \in 1..Len(files[i].rows) :
                    CellEq(files[i].rows[k].vendor, vendor)}))

VendorEntry(files, rows, vendor) ==
    [vendor_name |-> vendor,
     score |-> VendorScore(RowsOf(rows, vendor)),
     grade |-> Grade(VendorScore(RowsOf(rows, vendor))),
     total_discrepancies |-> Len(RowsOf(rows, vendor)),
     severity_breakdown |->
        [sev \in {"CRITICAL", "HIGH", "MEDIUM", "LOW"} |->
            SeverityCount(RowsOf(rows, vendor), 1, sev)],
     reports_analyzed |-> ReportsAnalyzed(files, vendor)]

\* plausible slip: reverse=True is left out
InsertByScore_Ascending(sorted, entry) ==
    LET before == SelectSeq(sorted, LAMBDA e : e.score <= entry.score)
        after == SelectSeq(sorted, LAMBDA e : e.score > entry.score)
    IN  before \o <<entry>> \o after

\* list.sort is stable, also with reverse=True: an entry goes after the
\* entries of greater or equal score and before those of smaller score
InsertByScore(sorted, entry) ==
    LET before == SelectSeq(sorted, LAMBDA e : e.score >= entry.score)
        after == SelectSeq(sorted, LAMBDA e : e.score < entry.score)
    IN  before \o <<entry>> \o after

\* vendor_scores.sort(key=lambda x: x['score'], reverse=True)
RECURSIVE SortByScore(_, _, _)
SortByScore(entries, i, sorted) ==
    IF i > Len(entries) THEN sorted
    ELSE SortByScore(entries, i + 1, InsertByScore(sorted, entries[i]))

Returned(fields) == [outcome |-> "returned", value |-> fields]

Raised(exception) == [outcome |-> "raised", value |-> exception]

NoScores(key, text) ==
    Returned([note |-> Some(<<key, text>>), vendor_scores |-> <<>>,
              total_vendors |-> None, total_reports_analyzed |-> None])

\* the loop over the vendors, the sort and the returned dict; building the
\* first entry raises when some file cannot be indexed by 'Vendor Name'
ScoreVendors(files, rows) ==
    LET vendors == Unique(rows, 1, <<>>)
        entries == [k \in 1..Len(vendors) |-> VendorEntry(files, rows, vendors[k])]
    IN  IF vendors # <<>> /\ entries[1].reports_analyzed = None
        THEN Raised(IndexError(files))
        ELSE Returned([note |-> None,
                       vendor_scores |-> SortByScore(entries, 1, <<>>),
                       total_vendors |-> Some(Len(vendors)),
                       total_reports_analyzed |-> Some(Len(files))])

\* the vendor filter (a None or empty vendor_name means every vendor)
FilterVendor(files, rows, vendor) ==
    IF vendor # None /\ Val(vendor) # ""
    THEN IF RowsOf(rows, Val(vendor)) = <<>>
         THEN NoScores("message", "No data found for vendor")
         ELSE ScoreVendors(files, RowsOf(rows, Val(vendor)))
    ELSE ScoreVendors(files, rows)

calculate_vendor_score(vendor, files) ==
    IF files = None
    THEN NoScores("error", "Output folder not found")
    ELSE IF Val(files) = <<>>
    THEN NoScores("message", "No discrepancy reports found")
    ELSE IF AllData(Val(files), 1) = <<>>
    THEN NoScores("message", "No valid CSV data with Vendor Name column found")
    ELSE FilterVendor(Val(files), Concat(AllData(Val(files), 1), 1), vendor)

\* ------------------------------------------------------------------------
\* SpecVendor: one call of calculate_vendor_score on a drawn report corpus
\* ------------------------------------------------------------------------
\* most report files in the output folder
MaxReports == 3

Row(vendor, sev) == [vendor |-> vendor, severity |-> sev]

Repeat(x, n) == [k \in 1..n |-> x]

\* a report written before the vendor column existed
LegacyReport == [kind |-> "no_vendor_column", rows |-> <<[severity |-> "HIGH"]>>]

\* a file read_csv cannot parse
UnreadableReport == [kind |-> "unreadable", rows |-> <<>>]

\* enough CRITICAL rows to take the score below 0 before the clamp
SevenCriticalReport == [kind |-> "ok", rows |-> Repeat(Row("V1", "CRITICAL"), 7)]

MixedReport ==
    [kind |-> "ok",
     rows |-> <<Row("V2", "LOW"), Row("V1", "HIGH"), Row("V2", "MEDIUM")>>]

UnknownSeverityReport ==
    [kind |-> "ok", rows |-> <<Row("V1", "UNKNOWN"), Row("V2", "HIGH")>>]

\* two vendors with the same score
TiedReport == [kind |-> "ok", rows |-> <<Row("V1", "LOW"), Row("V2", "LOW")>>]

\* a header line and no rows
EmptyReport == [kind |-> "ok", rows |-> <<>>]

ReportFiles == {LegacyReport, UnreadableReport, SevenCriticalReport, MixedReport,
                UnknownSeverityReport, TiedReport, EmptyReport}

VendorArguments == {None, Some(""), Some("V1"), Some("V3")}

InitVendor ==
    /\ pc = "start"
    /\ tie_up = FALSE
    /\ MatchingIdle
    /\ SeverityIdle
    /\ OtherIdle
    /\ csv_files \in {None} \cup {Some(f) : f \in SeqsUpTo(ReportFiles, MaxReports)}
    /\ vendor_name \in VendorArguments
    /\ vendor_result = None

CalculateVendorScore ==
    /\ pc = "start"
    /\ vendor_result' = Some(calculate_vendor_score(vendor_name, csv_files))
    /\ pc' = "scored"
    /\ UNCHANGED <<tie_up, matchingVars, severityVars, csv_files, vendor_name, otherVars>>

NextVendor == CalculateVendorScore

SpecVendor == InitVendor /\ [][NextVendor]_vars

\* ------------------------------------------------------------------------
\* Properties of calculate_vendor_score (checked under SpecVendor)
\* ------------------------------------------------------------------------
Files == Val(csv_files)

VendorOutcome == Val(vendor_result).outcome

VendorScores == Val(vendor_result).value.vendor_scores

MalformedFiles == {i \in 1..Len(Files) : Files[i].kind # "ok"}

\* the <<file, row>> positions of a vendor's rows of a severity in the
\* reports that have the vendor column
ValidRowPositions ==
    UNION {{<<i, k>> : k \in 1..Len(Files[i].rows)} :
              i \in {n \in 1..Len(Files) : Files[n].kind = "ok"}}

RowsAt(vendor, sev) ==
    {c \in ValidRowPositions : Files[c[1]].rows[c[2]] = Row(vendor, sev)}

\* the vendors of the valid reports that the vendor_name argument selects
SelectedVendors ==
    {v \in {Files[c[1]].rows[c[2]].vendor : c \in ValidRowPositions} :
        vendor_name \in {None, Some("")} \/ vendor_name = Some(v)}

\* clamp(100 - 15*#CRITICAL - 8*#HIGH - 4*#MEDIUM - 1*#LOW, 0, 100)
ExpectedVendorScore(vendor) ==
    LET raw == 100 - 15 * Cardinality(RowsAt(vendor, "CRITICAL"))
                   - 8 * Cardinality(RowsAt(vendor, "HIGH"))
                   - 4 * Cardinality(RowsAt(vendor, "MEDIUM"))
                   - Cardinality(RowsAt(vendor, "LOW"))
    IN  IF raw < 0 THEN 0 ELSE IF raw > 100 THEN 100 ELSE raw

\* C11: with a report lacking the 'Vendor Name' column and another, valid
\* report in the corpus, calculate_vendor_score skips the malformed report,
\* scores the vendors of the valid reports and returns without raising
C11_MalformedReportSkipped ==
    (/\ pc = "scored"
     /\ csv_files # None
     /\ vendor_name = None
     /\ \E i \in 1..Len(Files) : Files[i].kind = "no_vendor_column"
     /\ \E i \in 1..Len(Files) : Files[i].kind = "ok" /\ Files[i].rows # <<>>)
    => /\ VendorOutcome = "returned"
       /\ VendorScores # <<>>

C18_VendorScoresDescending ==
    (pc = "scored" /\ VendorOutcome = "returned") =>
        \A k \in 1..(Len(VendorScores) - 1) :
            VendorScores[k].score >= VendorScores[k + 1].score

C18_Witness ==
    /\ pc = "scored"
    /\ csv_files = Some(<<SevenCriticalReport, MixedReport>>)
    /\ vendor_name = None
    /\ VendorOutcome = "returned"
    /\ Len(VendorScores) = 2
    /\ VendorScores[1].vendor_name = "V2"
    /\ VendorScores[2].vendor_name = "V1"
    /\ VendorScores[1].score > VendorScores[2].score

\* ------------------------------------------------------------------------
\* parse_number / parse_currency
\* ------------------------------------------------------------------------
\* A value is [type, v]: "NoneType", "str" (v a sequence of characters),
\* "int" (v its decimal digits), "bool" (v "True" or "False"), "list",
\* "dict", or "bigint" for an integer beyond the range of a float.  A parsed
\* number is a fraction <<n, d>>.

\* str.replace(ch, '')
Remove(s, ch) == SelectSeq(s, LAMBDA c : c # ch)

IsDigit(c) == c \in {"0", "1", "2"}

DigitValue(c) == IF c = "0" THEN 0 ELSE IF c = "1" THEN 1 ELSE 2

\* the integer written by a sequence of digits
RECURSIVE DigitsValue(_, _, _)
DigitsValue(s, i, acc) ==
    IF i > Len(s) THEN acc ELSE DigitsValue(s, i + 1, acc * 10 + DigitValue(s[i]))

RECURSIVE Pow10(_)
Pow10(n) == IF n = 0 THEN 1 ELSE 10 * Pow10(n - 1)

\* an unsigned decimal literal: digits with at most one point and at least
\* one digit; None otherwise
ParseUnsigned(s) ==
    LET points == {i \in 1..Len(s) : s[i] = "."}
        digits == Remove(s, ".")
        decimals == IF points = {} THEN 0 ELSE Len(s) - (CHOOSE i \in points : TRUE)
    IN  IF /\ \A i \in 1..Len(s) : IsDigit(s[i]) \/ s[i] = "."
           /\ Cardinality(points) <= 1
           /\ digits # <<>>
        THEN Some(Frac(DigitsValue(digits, 1, 0), Pow10(decimals)))
        ELSE None

\* float(str): surrounding whitespace is ignored, then an optional sign and
\* a decimal literal; None stands for ValueError
StrToFloat(s) ==
    LET t == Strip(s)
        negative == t # <<>> /\ Head(t) = "-"
        magnitude == ParseUnsigned(IF negative THEN Tail(t) ELSE t)
    IN  IF magnitude = None THEN None
        ELSE IF negative THEN Some(<<-Val(magnitude)[1], Val(magnitude)[2]>>)
        ELSE magnitude

\* float(value) for a value that is not a string: TypeError and
\* OverflowError are not among the exceptions the parsers catch
ToFloat(val) ==
    CASE val.type = "int" -> Returned(Some(<<DigitsValue(val.v, 1, 0), 1>>))
      [] val.type = "bool" -> Returned(Some(<<IF val.v = <<"True">> THEN 1 ELSE 0, 1>>))
      [] val.type = "bigint" -> Raised("OverflowError")
      [] OTHER -> Raised("TypeError")

parse_number(val) ==
    IF val.type = "NoneType" THEN Returned(None)
    ELSE IF val.type = "str" THEN Returned(StrToFloat(Remove(val.v, ",")))
    ELSE ToFloat(val)

parse_currency(val) ==
    IF val.type = "NoneType" THEN Returned(None)
    ELSE IF val.type = "str"
    THEN Returned(StrToFloat(Strip(Remove(Remove(val.v, "$"), ","))))
    ELSE ToFloat(val)

\* ------------------------------------------------------------------------
\* SpecParse: one call of parse_number or parse_currency on a drawn value
\* ------------------------------------------------------------------------
\* longest string drawn
MaxChars == 3

ParseChars == {"1", "2", ",", "$", ".", "-", " ", "x"}

ParseValues ==
    {[type |-> "NoneType", v |-> None]}
    \cup {[type |-> "str", v |-> str] : str \in SeqsUpTo(ParseChars, MaxChars)}
    \cup {[type |-> "int", v |-> n] : n \in {<<"1">>, <<"1", "2">>}}
    \cup {[type |-> "bool", v |-> <<b>>] : b \in {"True", "False"}}
    \cup {[type |-> t, v |-> None] : t \in {"list", "dict", "bigint"}}

InitParse ==
    /\ pc = "start"
    /\ tie_up = FALSE
    /\ MatchingIdle
    /\ SeverityIdle
    /\ VendorIdle
    /\ ReportIdle
    /\ RunIdle
    /\ value \in ParseValues
    /\ parsed = None

ParseNumber ==
    /\ pc = "start"
    /\ parsed' = Some(parse_number(value))
    /\ pc' = "parse_number"
    /\ UNCHANGED <<tie_up, matchingVars, severityVars, vendorVars, value,
                   reportVars, runVars>>

ParseCurrency ==
    /\ pc = "start"
    /\ parsed' = Some(parse_currency(value))
    /\ pc' = "parse_currency"
    /\ UNCHANGED <<tie_up, matchingVars, severityVars, vendorVars, value,
                   reportVars, runVars>>

NextParse == ParseNumber \/ ParseCurrency

SpecParse == InitParse /\ [][NextParse]_vars

\* ------------------------------------------------------------------------
\* Properties of parse_number / parse_currency (checked under SpecParse)
\* ------------------------------------------------------------------------

\* the string is a number once thousands separators, currency symbols and
\* surrounding blanks are taken away
ParsableAfterStripping(str) ==
    LET t == Strip(Remove(Remove(str, "$"), ","))
        u == IF t # <<>> /\ Head(t) = "-" THEN Tail(t) ELSE t
    IN  /\ u # <<>>
        /\ \A i \in 1..Len(u) : u[i] \in {"1", "2", "."}
        /\ Cardinality({i \in 1..Len(u) : u[i] = "."}) <= 1
        /\ \E i \in 1..Len(u) : u[i] \in {"1", "2"}

\* C13: parse_number and parse_currency never raise: for every value of
\* whatever type they return a number or null, and null whenever the value
\* cannot be parsed after stripping thousands separators and currency symbols
C13_ParsingNeverRaises ==
    pc \in {"parse_number", "parse_currency"} =>
        /\ Val(parsed).outcome = "returned"
        /\ (value.type = "str" /\ ~ParsableAfterStripping(value.v)) =>
              Val(parsed).value = None

\* ------------------------------------------------------------------------
\* calculate_trust_score
\* ------------------------------------------------------------------------

\* severity_counts[severity] += 1 for every field discrepancy of one entry
\* whose severity is one of the four counted
RECURSIVE CountFieldDiscs(_, _, _)
CountFieldDiscs(counts, field_discs, j) ==
    IF j > Len(field_discs) THEN counts
    ELSE IF field_discs[j].severity \in DOMAIN counts
    THEN CountFieldDiscs([counts EXCEPT ![field_discs[j].severity] = @ + 1],
                         field_discs, j + 1)
    ELSE CountFieldDiscs(counts, field_discs, j + 1)

\* for disc in discrepancies: for field_disc in disc['discrepancies']
RECURSIVE CountSeverities(_, _, _)
CountSeverities(counts, discrepancies, i) ==
    IF i > Len(discrepancies) THEN counts
    ELSE CountSeverities(CountFieldDiscs(counts, discrepancies[i].discrepancies, 1),
                         discrepancies, i + 1)

ZeroCounts == [sev \in {"CRITICAL", "HIGH", "MEDIUM", "LOW"} |-> 0]

TotalDeduction(counts) ==
    counts["CRITICAL"] * SeverityWeight("CRITICAL")
    + counts["HIGH"] * SeverityWeight("HIGH")
    + counts["MEDIUM"] * SeverityWeight("MEDIUM")
    + counts["LOW"] * SeverityWeight("LOW")

\* overall_score >= 0.9, in thousandths
SuccessThreshold == 900

\* plausible slip: > leaves out a match of exactly 0.9
SuccessfulMatches_Strict(matches) ==
    Len(SelectSeq(matches, LAMBDA m : m.overall_score > SuccessThreshold))

\* len([m for m in fuzzy_matches if m['overall_score'] >= 0.9])
SuccessfulMatches(matches) ==
    Len(SelectSeq(matches, LAMBDA m : m.overall_score >= SuccessThreshold))

\* plausible slip: the clamp is left out
TrustScoreValue_Unclamped(total_deduction, match_bonus) ==
    100 + total_deduction + match_bonus

\* max(0, min(100, base_score + total_deduction + match_bonus))
TrustScoreValue(total_deduction, match_bonus) ==
    Clamp(100 + total_deduction + match_bonus)

TrustLevel(score) ==
    IF score >= 90 THEN <<"EXCELLENT", "green">>
    ELSE IF score >= 75 THEN <<"GOOD", "blue">>
    ELSE IF score >= 60 THEN <<"FAIR", "yellow">>
    ELSE IF score >= 40 THEN <<"POOR", "orange">>
    ELSE <<"CRITICAL", "red">>

\* the returned dict; match_rate in hundredths of a percent
TrustScoreResult(counts, successful_matches, total_items, score) ==
    [score |-> score,
     level |-> TrustLevel(score)[1],
     color |-> TrustLevel(score)[2],
     severity_breakdown |-> counts,
     total_discrepancies |->
        counts["CRITICAL"] + counts["HIGH"] + counts["MEDIUM"] + counts["LOW"],
     successful_matches |-> successful_matches,
     total_items |-> total_items,
     match_rate |-> IF total_items > 0
                    THEN RoundDiv(successful_matches * 10000, total_items)
                    ELSE 0]

TrustScoreOf(counts, successful_matches, total_items) ==
    TrustScoreResult(counts, successful_matches, total_items,
                     TrustScoreValue(TotalDeduction(counts), successful_matches * 2))

calculate_trust_score(matches) ==
    TrustScoreOf(CountSeverities(ZeroCounts, matches.potential_discrepancies, 1),
                 SuccessfulMatches(matches.fuzzy_matches),
                 Len(matches.fuzzy_matches))

\* ------------------------------------------------------------------------
\* Severities of one compared pair (checked under SpecCompare)
\* ------------------------------------------------------------------------
\* C30: with number_tolerance >= 5.0 every numeric field discrepancy has
\* severity HIGH or CRITICAL, LOW comes from text fields only and MEDIUM
\* never arises, so the MEDIUM count of the trust score is 0
C30_NoMediumAtDefaultTolerance ==
    (pc = "compared" /\ number_tolerance >= 5) =>
        /\ \A k \in 1..Len(Result.discrepancies) :
              /\ Result.discrepancies[k].field \in NumericFieldNames =>
                    Result.discrepancies[k].severity \in {"HIGH", "CRITICAL"}
              /\ Result.discrepancies[k].severity = "LOW" =>
                    Result.discrepancies[k].field \in TextFieldNames
              /\ Result.discrepancies[k].severity # "MEDIUM"
        /\ calculate_trust_score(PairResults).severity_breakdown["MEDIUM"] = 0

\* a numeric discrepancy whose rounded difference percent is 5.0 itself
C30_Witness ==
    /\ pc = "compared"
    /\ number_tolerance = 5
    /\ string_threshold = 80
    /\ ext_item = FullItemD
    /\ map_item = FullItemA
    /\ \E k \in 1..Len(Result.discrepancies) :
          /\ Result.discrepancies[k].field = "billed_impressions"
          /\ Result.discrepancies[k].difference_percent = Some(500)
          /\ Result.discrepancies[k].severity = "HIGH"
    /\ calculate_trust_score(PairResults).total_discrepancies = 5

\* ------------------------------------------------------------------------
\* SpecTrust: calculate_trust_score on a drawn find_fuzzy_matches result,
\* then again after one more CRITICAL field discrepancy is put into it
\* ------------------------------------------------------------------------
\* most entries of fuzzy_matches drawn
MaxMatches == 2

\* most CRITICAL field discrepancies added to a drawn result
MaxAdded == 8

\* a numeric field discrepancy of the given difference percent (hundredths)
FieldDisc(field, percent) ==
    [field |-> field, extracted_value |-> Some(100), mapping_value |-> Some(60),
     difference |-> Some(40), difference_percent |-> Some(percent),
     similarity |-> None, severity |-> get_discrepancy_severity(percent)]

CriticalDisc == FieldDisc("net_cost", 4000)

TrustDiscLists ==
    {<<>>,
     <<FieldDisc("clicks", 4000)>>,
     <<FieldDisc("booked_impressions", 700), FieldDisc("clicks", 50)>>,
     <<FieldDisc("billed_impressions", 300)>>}

\* overall scores just below, at and above the success threshold
TrustScores == {899, 900, 1000}

\* an entry of fuzzy_matches as find_fuzzy_matches builds it
FuzzyMatchEntry(line, score, field_discs) ==
    BestMatchRecord(
        [NoItem EXCEPT !["line_id"] = Some(line),
                       !["campaign_name"] = Some(<<"a", "b">>)],
        [source_file |-> 1],
        [NoItem EXCEPT !["line_id"] = Some(1)],
        [overall_score |-> score, matched_fields |-> <<"campaign_name">>,
         discrepancies |-> field_discs, field_scores |-> <<<<"campaign_name", 100>>>>])

\* the result with the given fuzzy matches: those with discrepancies are
\* in potential_discrepancies as well
RECURSIVE FileMatches(_, _, _)
FileMatches(res, entries, k) ==
    IF k > Len(entries) THEN res
    ELSE FileMatches(FileMatch(res, entries[k]), entries, k + 1)

FuzzyMatchInputs(discLists, maxMatches) ==
    {FileMatches(EmptyResults,
                 [k \in 1..Len(e) |-> FuzzyMatchEntry(k, e[k][1], e[k][2])], 1) :
        e \in SeqsUpTo(TrustScores \X discLists, maxMatches)}

\* one more CRITICAL field discrepancy on entry k, all else as it was
WithCritical(matches, k) ==
    FileMatches(EmptyResults,
        [matches.fuzzy_matches EXCEPT
            ![k].match_details.discrepancies = Append(@, CriticalDisc)], 1)

InitTrust ==
    /\ pc = "start"
    /\ tie_up = FALSE
    /\ MatchingIdle
    /\ SeverityIdle
    /\ VendorIdle
    /\ ParseIdle
    /\ RunIdle
    /\ fuzzy_matches \in {Some(m) : m \in FuzzyMatchInputs(TrustDiscLists, MaxMatches)}
    /\ report_vendor = None
    /\ trust_score = None
    /\ df = None

CalculateTrustScore ==
    /\ pc = "start"
    /\ trust_score' = Some(calculate_trust_score(Val(fuzzy_matches)))
    /\ pc' = "scored"
    /\ UNCHANGED <<tie_up, matchingVars, severityVars, vendorVars, parseVars, runVars,
                   fuzzy_matches, report_vendor, df>>

\* the same call on the same input with one more CRITICAL discrepancy
RecalculateWithCritical ==
    /\ pc \in {"scored", "rescored"}
    /\ Val(trust_score).severity_breakdown["CRITICAL"] < MaxAdded
    /\ \E k \in 1..Len(Val(fuzzy_matches).fuzzy_matches) :
          /\ fuzzy_matches' = Some(WithCritical(Val(fuzzy_matches), k))
          /\ trust_score' = Some(calculate_trust_score(WithCritical(Val(fuzzy_matches), k)))
    /\ pc' = "rescored"
    /\ UNCHANGED <<tie_up, matchingVars, severityVars, vendorVars, parseVars, runVars,
                   report_vendor, df>>

NextTrust == CalculateTrustScore \/ RecalculateWithCritical

SpecTrust == InitTrust /\ [][NextTrust]_vars

\* ------------------------------------------------------------------------
\* Properties of calculate_trust_score (checked under SpecTrust)
\* ------------------------------------------------------------------------
TrustInput == Val(fuzzy_matches)

\* the <<entry, field discrepancy>> positions of a severity in
\* potential_discrepancies
FieldDiscsAt(sev) ==
    UNION {{<<i, j>> : j \in {n \in 1..Len(TrustInput.potential_discrepancies[i].discrepancies) :
                          TrustInput.potential_discrepancies[i].discrepancies[n].severity = sev}} :
              i \in 1..Len(TrustInput.potential_discrepancies)}

ConfidentMatches ==
    {k \in 1..Len(TrustInput.fuzzy_matches) :
        TrustInput.fuzzy_matches[k].overall_score >= 900}

ExpectedTrustScore ==
    LET raw == 100 - 15 * Cardinality(FieldDiscsAt("CRITICAL"))
                   - 8 * Cardinality(FieldDiscsAt("HIGH"))
                   - 4 * Cardinality(FieldDiscsAt("MEDIUM"))
                   - Cardinality(FieldDiscsAt("LOW"))
                   + 2 * Cardinality(ConfidentMatches)
    IN  IF raw < 0 THEN 0 ELSE IF raw > 100 THEN 100 ELSE raw

\* C15: score = clamp(100 - 15*#CRITICAL - 8*#HIGH - 4*#MEDIUM - 1*#LOW
\* + 2*#(fuzzy matches with overall_score >= 0.9), 0, 100), the severities
\* counted over every field discrepancy of every potential_discrepancies entry
C15_TrustScoreFormula ==
    pc \in {"scored", "rescored"} => Val(trust_score).score = ExpectedTrustScore

C15_Witness ==
    /\ pc = "scored"
    /\ Cardinality(FieldDiscsAt("HIGH")) >= 1
    /\ Cardinality(FieldDiscsAt("LOW")) >= 1
    /\ Cardinality(FieldDiscsAt("CRITICAL")) >= 1
    /\ \E k \in ConfidentMatches : TrustInput.fuzzy_matches[k].overall_score = 900
    /\ Val(trust_score).score = 100 - 15 - 8 - 1 + 2

\* C16: with every other input fixed the trust score does not increase when
\* the number of CRITICAL discrepancies increases, and it is always in [0, 100]
C16_TrustScoreMonotoneInCritical ==
    /\ [](trust_score # None => (Val(trust_score).score >= 0 /\ Val(trust_score).score <= 100))
    /\ [][(trust_score # None /\ trust_score' # None)
            => Val(trust_score').score <= Val(trust_score).score]_vars

C16_Witness ==
    /\ pc = "rescored"
    /\ Val(trust_score).severity_breakdown["CRITICAL"] = 7
    /\ Val(trust_score).score = 0
    /\ Val(trust_score).successful_matches = 2

\* ------------------------------------------------------------------------
\* generate_discrepancy_report
\* ------------------------------------------------------------------------

\* plausible slip: the vendor name is written as given, with no default
ReportRow_NoDefault(vendor, disc, field_disc) ==
    [Vendor_Name |-> IF vendor # None THEN Val(vendor) ELSE "",
     Source |-> "Fuzzy Match",
     Mapping_File |-> disc.mapping_file,
     Campaign |-> disc.campaign,
     Line_ID |-> disc.extracted_line,
     Field |-> field_disc.field,
     Extracted_Value |-> field_disc.extracted_value,
     Expected_Value |-> field_disc.mapping_value,
     Difference |-> field_disc.difference,
     Difference_Percent |-> field_disc.difference_percent,
     Severity |-> field_disc.severity]

\* one row of report_data; a Difference or Difference % of None is 'N/A'
ReportRow(vendor, disc, field_disc) ==
    [Vendor_Name |-> IF vendor # None /\ Val(vendor) # "" THEN Val(vendor) ELSE "Unknown",
     Source |-> "Fuzzy Match",
     Mapping_File |-> disc.mapping_file,
     Campaign |-> disc.campaign,
     Line_ID |-> disc.extracted_line,
     Field |-> field_disc.field,
     Extracted_Value |-> field_disc.extracted_value,
     Expected_Value |-> field_disc.mapping_value,
     Difference |-> field_disc.difference,
     Difference_Percent |-> field_disc.difference_percent,
     Severity |-> field_disc.severity]

\* for disc in potential_discrepancies: for field_disc in disc['discrepancies']
RECURSIVE ReportData(_, _, _)
ReportData(vendor, discrepancies, i) ==
    IF i > Len(discrepancies) THEN <<>>
    ELSE [j \in 1..Len(discrepancies[i].discrepancies) |->
             ReportRow(vendor, discrepancies[i], discrepancies[i].discrepancies[j])]
         \o ReportData(vendor, discrepancies, i + 1)

\* severity_order
SeverityRank(sev) ==
    CASE sev = "CRITICAL" -> 0
      [] sev = "HIGH" -> 1
      [] sev = "MEDIUM" -> 2
      [] sev = "LOW" -> 3
      [] OTHER -> 4

\* every order of the rows of a sequence
Orders(rows) ==
    {[i \in 1..Len(rows) |-> rows[f[i]]] :
        f \in {g \in [1..Len(rows) -> 1..Len(rows)] :
                  \A a, b \in 1..Len(rows) : a # b => g[a] # g[b]}}

RowsOfRank(rows, rank) == SelectSeq(rows, LAMBDA row : SeverityRank(row.Severity) = rank)

\* df.sort_values('_severity_rank') with the default kind='quicksort', which
\* is not a stable sort: the rows come out in rank order, and rows of equal
\* rank in any order
SortValues(rows) ==
    {c \o h \o m \o l \o u :
        c \in Orders(RowsOfRank(rows, 0)), h \in Orders(RowsOfRank(rows, 1)),
        m \in Orders(RowsOfRank(rows, 2)), l \in Orders(RowsOfRank(rows, 3)),
        u \in Orders(RowsOfRank(rows, 4))}

\* the frames the call can return (an empty frame is returned unsorted)
generate_discrepancy_report(matches, vendor) ==
    SortValues(ReportData(vendor, matches.potential_discrepancies, 1))

\* ------------------------------------------------------------------------
\* SpecReport: one call of generate_discrepancy_report on a drawn
\* find_fuzzy_matches result
\* ------------------------------------------------------------------------
\* text discrepancies carry a similarity and no difference
TextDisc(field) ==
    [field |-> field, extracted_value |-> Some(<<"a", "b", "c", "d">>),
     mapping_value |-> Some(<<"a", "b", "c", "e">>),
     difference |-> None, difference_percent |-> None,
     similarity |-> Some(75), severity |-> "LOW"]

ReportDiscLists ==
    {<<>>,
     <<FieldDisc("booked_impressions", 700)>>,
     <<FieldDisc("clicks", 4000), FieldDisc("net_cost", 700)>>,
     <<FieldDisc("clicks", 50), TextDisc("ad_unit")>>}

InitReport ==
    /\ pc = "start"
    /\ tie_up = FALSE
    /\ MatchingIdle
    /\ SeverityIdle
    /\ VendorIdle
    /\ ParseIdle
    /\ RunIdle
    /\ fuzzy_matches \in {Some(m) : m \in FuzzyMatchInputs(ReportDiscLists, MaxMatches)}
    /\ report_vendor \in {None, Some("V1")}
    /\ trust_score = None
    /\ df = None

GenerateDiscrepancyReport ==
    /\ pc = "start"
    /\ \E frame \in generate_discrepancy_report(Val(fuzzy_matches), report_vendor) :
          df' = Some(frame)
    /\ pc' = "reported"
    /\ UNCHANGED <<tie_up, matchingVars, severityVars, vendorVars, parseVars, runVars,
                   fuzzy_matches, report_vendor, trust_score>>

NextReport == GenerateDiscrepancyReport

SpecReport == InitReport /\ [][NextReport]_vars

\* ------------------------------------------------------------------------
\* Properties of generate_discrepancy_report (checked under SpecReport)
\* ------------------------------------------------------------------------
Frame == Val(df)

\* the rows in the order in which they are produced from
\* potential_discrepancies
Produced == ReportData(report_vendor, Val(fuzzy_matches).potential_discrepancies, 1)

\* position of a row of the frame among the produced rows (a row is
\* identified by its line and field)
ProducedAt(row) ==
    CHOOSE k \in 1..Len(Produced) :
        Produced[k].Line_ID = row.Line_ID /\ Produced[k].Field = row.Field

\* the field discrepancies of all entries of potential_discrepancies
RECURSIVE FieldDiscrepancyCount(_, _)
FieldDiscrepancyCount(discrepancies, i) ==
    IF i > Len(discrepancies) THEN 0
    ELSE Len(discrepancies[i].discrepancies) + FieldDiscrepancyCount(discrepancies, i + 1)

\* C25: the report has exactly one row per field discrepancy of every
\* entry of potential_discrepancies, so its row count equals the
\* total_discrepancies of calculate_trust_score for the same results, and
\* every row carries the vendor name of the invoice header, or "Unknown"
\* when there is none
C25_OneRowPerFieldDiscrepancy ==
    pc = "reported" =>
        /\ Len(Frame) = FieldDiscrepancyCount(Val(fuzzy_matches).potential_discrepancies, 1)
        /\ Len(Frame) = calculate_trust_score(Val(fuzzy_matches)).total_discrepancies
        /\ \A k \in 1..Len(Frame) :
              Frame[k].Vendor_Name =
                  IF report_vendor = None THEN "Unknown" ELSE Val(report_vendor)

C25_Witness ==
    /\ pc = "reported"
    /\ report_vendor = None
    /\ Len(Val(fuzzy_matches).potential_discrepancies) = 2
    /\ Len(Frame) = 4
    /\ calculate_trust_score(Val(fuzzy_matches)).total_discrepancies = 4
    /\ Frame[1].Vendor_Name = "Unknown"

\* C19: the rows are ordered by severity rank, CRITICAL first, then HIGH,
\* MEDIUM, LOW, and rows of equal severity keep the relative order in which
\* they were produced from potential_discrepancies
C19_ReportSortedStably ==
    pc = "reported" =>
        \A i, j \in 1..Len(Frame) :
            i < j =>
                /\ SeverityRank(Frame[i].Severity) <= SeverityRank(Frame[j].Severity)
                /\ Frame[i].Severity = Frame[j].Severity =>
                      ProducedAt(Frame[i]) < ProducedAt(Frame[j])

\* ------------------------------------------------------------------------
\* load_mapping_files / normalize_mapping_data
\* ------------------------------------------------------------------------
\* A JSON value is [type, v] as for the parsers; a dict is
\* [type |-> "dict", v |-> <<d>>] with d a function on its keys, and a
\* list is [type |-> "list", v |-> <<items>>].

PyNone == [type |-> "NoneType", v |-> None]

PyStr(str) == [type |-> "str", v |-> str]

PyDict(d) == [type |-> "dict", v |-> Some(d)]

PyList(items) == [type |-> "list", v |-> Some(items)]

\* d.get(key, default)
DictGet(d, key, default) == IF key \in DOMAIN d THEN d[key] ELSE default

\* bool(value)
Truthy(val) ==
    CASE val.type = "NoneType" -> FALSE
      [] val.type = "str" -> val.v # <<>>
      [] val.type = "int" -> DigitsValue(val.v, 1, 0) # 0
      [] val.type = "bool" -> val.v = <<"True">>
      [] val.type = "dict" -> DOMAIN Val(val.v) # {}
      [] val.type = "list" -> Val(val.v) # <<>>
      [] OTHER -> TRUE

\* a or b
Or(a, b) == IF Truthy(a) THEN a ELSE b

\* a mapping file of the folder is [name, data]: data is the JSON value
\* json.load returns, or None when the file cannot be read or parsed.
\* A file is kept when it loads and data['_source_file'] = name succeeds,
\* which it does on a dict only; every exception skips the file.
Loadable(file) == file.data # None /\ Val(file.data).type = "dict"

LoadedMapping(file) ==
    [key \in DOMAIN Val(Val(file.data).v) \cup {"_source_file"} |->
        IF key = "_source_file" THEN PyStr(file.name)
        ELSE Val(Val(file.data).v)[key]]

\* folder is None when the path does not exist, else the files that
\* glob('*.json') lists, in its order
load_mapping_files(folder) ==
    IF folder = None THEN <<>>
    ELSE [k \in 1..Len(SelectSeq(Val(folder), Loadable)) |->
             LoadedMapping(SelectSeq(Val(folder), Loadable)[k])]

\* a text field of a line item as the comparison reads it
TextField(val) == IF val.type = "NoneType" THEN None ELSE Some(val.v)

\* a parsed number as the comparison reads it (the mapping files drawn hold
\* whole numbers)
NumberField(number) ==
    IF number = None THEN None ELSE Some(Val(number)[1] \div Val(number)[2])

\* plausible slip: the revenues of the mapping file are carried too
NormalizedItem_WithRevenue(idx, item, booked, billed, clicks, net_cost) ==
    [f \in Fields |->
       CASE f = "line_id" -> Some(idx)
         [] f = "campaign_name" -> TextField(DictGet(item, "Campaign", PyNone))
         [] f = "insertion_order_id" -> TextField(DictGet(item, "IO", PyNone))
         [] f = "ad_unit" -> TextField(DictGet(item, "Ad Unit", PyNone))
         [] f = "format" -> TextField(DictGet(item, "Format", PyNone))
         [] f = "booked_impressions" -> NumberField(booked)
         [] f = "billed_impressions" -> NumberField(billed)
         [] f = "clicks" -> NumberField(clicks)
         [] f = "net_cost" -> NumberField(net_cost)
         [] f = "geo" -> TextField(DictGet(item, "Geo", PyNone))
         [] f = "gross_revenue" ->
              NumberField(parse_currency(DictGet(item, "Gross Revenue", PyNone)).value)
         [] f = "net_revenue" ->
              NumberField(parse_currency(DictGet(item, "Net Revenue", PyNone)).value)
         [] OTHER -> None]

\* normalized_item, restricted to the fields that are compared;
\* gross_revenue and net_revenue are not among its keys
NormalizedItem(idx, item, booked, billed, clicks, net_cost) ==
    [f \in Fields |->
       CASE f = "line_id" -> Some(idx)
         [] f = "campaign_name" -> TextField(DictGet(item, "Campaign", PyNone))
         [] f = "insertion_order_id" -> TextField(DictGet(item, "IO", PyNone))
         [] f = "ad_unit" -> TextField(DictGet(item, "Ad Unit", PyNone))
         [] f = "format" -> TextField(DictGet(item, "Format", PyNone))
         [] f = "booked_impressions" -> NumberField(booked)
         [] f = "billed_impressions" -> NumberField(billed)
         [] f = "clicks" -> NumberField(clicks)
         [] f = "net_cost" -> NumberField(net_cost)
         [] f = "geo" -> TextField(DictGet(item, "Geo", PyNone))
         [] OTHER -> None]

\* the first of the outcomes, in evaluation order, that is an exception
FirstRaised(outcomes) ==
    LET raised == {k \in 1..Len(outcomes) : outcomes[k].outcome = "raised"}
    IN  IF raised = {} THEN None
        ELSE Some(outcomes[CHOOSE k \in raised : \A j \in raised : k <= j])

\* body of the loop over line_items: item.get on a value that is not a
\* dict is an AttributeError, and an exception of a parser propagates
NormalizeItem(idx, item) ==
    IF item.type # "dict" THEN Raised("AttributeError")
    ELSE LET d == Val(item.v)
             numbers == <<parse_number(DictGet(d, "Booked", PyNone)),
                          parse_number(DictGet(d, "Billed", PyNone)),
                          parse_number(DictGet(d, "Clicks", PyNone)),
                          parse_currency(DictGet(d, "Net Cost", PyNone))>>
         IN  IF FirstRaised(numbers) # None THEN Val(FirstRaised(numbers))
             ELSE Returned(NormalizedItem(idx, d, numbers[1].value, numbers[2].value,
                                          numbers[3].value, numbers[4].value))

\* for idx, item in enumerate(line_items, 1)
RECURSIVE NormalizeItems(_, _, _)
NormalizeItems(acc, items, idx) ==
    IF idx > Len(items) THEN Returned(acc)
    ELSE LET item == NormalizeItem(idx, items[idx])
         IN  IF item.outcome = "raised" THEN item
             ELSE NormalizeItems(Append(acc, item.value), items, idx + 1)

\* the header block: each field is the first truthy alias, else the last
NormalizedHeader(mapping, header) ==
    [invoice_number |-> Or(Or(DictGet(header, "Invoice ID", PyNone),
                              DictGet(header, "Bill Number", PyNone)),
                           DictGet(header, "Reference No.", PyNone)),
     vendor_name |-> DictGet(mapping, "Vendor", PyNone),
     invoice_date |-> Or(Or(DictGet(header, "Invoice Date", PyNone),
                            DictGet(header, "Date Issued", PyNone)),
                         DictGet(header, "Date", PyNone)),
     currency |-> Or(DictGet(header, "Currency Type", PyNone),
                     DictGet(header, "Currency", PyNone)),
     total_amount |-> Or(Or(DictGet(header, "Total Due", PyNone),
                            DictGet(header, "Grand Total", PyNone)),
                         DictGet(header, "Amount", PyNone))]

\* for ... in enumerate(line_items, 1): the elements of a str or the keys
\* of a dict are strings, on which item.get is an AttributeError; a value
\* that is not iterable (null, a number) is a TypeError
NormalizeLineItems(line_items) ==
    CASE line_items.type = "list" -> NormalizeItems(<<>>, Val(line_items.v), 1)
      [] line_items.type = "str" ->
            IF line_items.v = <<>> THEN Returned(<<>>) ELSE Raised("AttributeError")
      [] line_items.type = "dict" ->
            IF DOMAIN Val(line_items.v) = {} THEN Returned(<<>>)
            ELSE Raised("AttributeError")
      [] OTHER -> Raised("TypeError")

\* header.get on a Header that is not a dict is an AttributeError
normalize_mapping_data(mapping) ==
    LET header == DictGet(mapping, "Header", PyDict(<<>>))
        items == NormalizeLineItems(DictGet(mapping, "LineItems", PyList(<<>>)))
    IN  IF header.type # "dict" THEN Raised("AttributeError")
        ELSE IF items.outcome = "raised" THEN items
        ELSE Returned([invoice_header |-> NormalizedHeader(mapping, Val(header.v)),
                       line_items |-> items.value,
                       source_file |-> DictGet(mapping, "_source_file",
                                               PyStr(<<"u", "n", "k", "n", "o", "w", "n">>)).v,
                       invoice_index |-> DictGet(mapping, "InvoiceIndex", PyNone)])

\* ------------------------------------------------------------------------
\* save_discrepancy_report / run_invoice_reconciliation
\* ------------------------------------------------------------------------
\* the clock counts ticks of half a second
TicksPerSecond == 2

\* strftime('%Y%m%d_%H%M%S') of the clock: the path names the second, the
\* fraction of the second is dropped
ReportPath(clock) == clock \div TicksPerSecond

\* df.to_csv(output_path) creates the file or replaces the one at that path
WriteCsv(output, path, frame) ==
    [p \in DOMAIN output \cup {path} |-> IF p = path THEN frame ELSE output[p]]

\* called with output_path None; gives the path and the folder afterwards
save_discrepancy_report(frame, clock, output) ==
    [output_path |-> ReportPath(clock),
     output_folder |-> WriteCsv(output, ReportPath(clock), frame)]

\* what one run leaves: its outcome, the output folder, whether it saved
RunOutcome(result, output, saved) ==
    [result |-> result, output_folder |-> output, saved |-> saved]

\* return {"error": extracted_data, "status": "failed"}
FailedResult(extracted) == [error |-> extracted, status |-> "failed"]

\* the dict returned when load_mapping_files gives an empty list
NoMappingResult(extracted) ==
    [status |-> "success",
     extracted_data |-> extracted,
     mapping_data |-> <<>>,
     warning |-> "No mapping files available",
     discrepancy_report |-> <<>>,
     trust_score |-> calculate_trust_score(
                        [fuzzy_matches |-> <<>>, potential_discrepancies |-> <<>>])]

\* the dict returned by a complete run
FullResult(extracted, mappings, matches, frame, report_path) ==
    [status |-> "success",
     extracted_data |-> extracted,
     mapping_files_count |-> Len(mappings),
     fuzzy_matches |-> matches,
     discrepancy_report |-> frame,
     report_path |-> report_path,
     trust_score |-> calculate_trust_score(matches),
     summary |-> [total_line_items |-> Len(extracted.line_items),
                  fuzzy_matches |-> Len(matches.fuzzy_matches),
                  discrepancies |-> Len(matches.potential_discrepancies),
                  unmatched |-> Len(matches.no_match_found)]]

\* if save_report and not discrepancy_df.empty: save; then return
SaveAndReturn(extracted, mappings, matches, frame, save_report, clock, output, saved) ==
    IF save_report /\ frame # <<>>
    THEN RunOutcome(Returned(FullResult(extracted, mappings, matches, frame,
                                        Some(saved.output_path))),
                    saved.output_folder, TRUE)
    ELSE RunOutcome(Returned(FullResult(extracted, mappings, matches, frame, None)),
                    output, FALSE)

\* from generate_discrepancy_report on, for each frame it can return
ReportAndSave(extracted, mappings, matches, save_report, clock, output) ==
    {SaveAndReturn(extracted, mappings, matches, frame, save_report, clock, output,
                   save_discrepancy_report(frame, clock, output)) :
        frame \in generate_discrepancy_report(matches,
                                              extracted.invoice_header.vendor_name)}

\* [normalize_mapping_data(m) for m in mapping_data_raw]
NormalizeAll(outcomes) ==
    IF FirstRaised(outcomes) # None THEN Val(FirstRaised(outcomes))
    ELSE Returned([k \in 1..Len(outcomes) |-> outcomes[k].value])

\* after the mapping files are loaded
Reconcile(extracted, mappings, threshold, tolerance, save_report, clock, output) ==
    IF mappings.outcome = "raised" THEN {RunOutcome(mappings, output, FALSE)}
    ELSE ReportAndSave(extracted, mappings.value,
                       find_fuzzy_matches(extracted, mappings.value, threshold, tolerance),
                       save_report, clock, output)

\* extracted is what extract_invoice_data gives for the invoice, folder the
\* mapping folder, clock and output the time and the output folder of the
\* call; the outcomes the call can have
run_invoice_reconciliation(extracted, folder, threshold, tolerance, save_report, clock, output) ==
    IF "error" \in DOMAIN extracted
    THEN {RunOutcome(Returned(FailedResult(extracted)), output, FALSE)}
    ELSE IF load_mapping_files(folder) = <<>>
    THEN {RunOutcome(Returned(NoMappingResult(extracted)), output, FALSE)}
    ELSE Reconcile(extracted,
                   NormalizeAll([k \in 1..Len(load_mapping_files(folder)) |->
                                    normalize_mapping_data(load_mapping_files(folder)[k])]),
                   threshold, tolerance, save_report, clock, output)

\* ------------------------------------------------------------------------
\* SpecRun: reconciliation runs against one mapping folder as time passes
\* ------------------------------------------------------------------------
\* last tick of the clock
MaxClock == 3

\* most saves followed
MaxSaves == 2

\* most line items of an extracted invoice
MaxRunItems == 1

\* one mapping file: campaign "ab" billed 12, with revenues of 12
MappingJson ==
    [Vendor |-> PyStr(<<"V", "1">>),
     Header |-> PyDict(("Invoice ID" :> PyStr(<<"1">>))),
     LineItems |-> PyList(<<PyDict(("Campaign" :> PyStr(<<"a", "b">>))
                                   @@ ("Billed" :> PyStr(<<"1", "2">>))
                                   @@ ("Gross Revenue" :> PyStr(<<"1", "2">>))
                                   @@ ("Net Revenue" :> PyStr(<<"1", "2">>)))>>)]

MappingFile == [name |-> <<"m", "1">>, data |-> Some(PyDict(MappingJson))]

\* a file that is not valid JSON
BrokenFile == [name |-> <<"m", "0">>, data |-> None]

\* a file whose Header is null
NullHeaderFile ==
    [name |-> <<"m", "2">>, data |-> Some(PyDict([Header |-> PyNone]))]

MappingFolders ==
    {None, Some(<<>>), Some(<<BrokenFile>>), Some(<<MappingFile>>),
     Some(<<BrokenFile, MappingFile>>), Some(<<NullHeaderFile>>)}

\* an extracted line item of campaign "ab" with its revenues
RunItem(billed, gross_revenue, net_revenue) ==
    [MatchItem(Some(<<"a", "b">>), billed) EXCEPT !["gross_revenue"] = gross_revenue,
                                                   !["net_revenue"] = net_revenue]

\* extracted line items: billed as in the mapping file, or 21; revenues as
\* in the mapping file, different, or missing
RunItems == {RunItem(Some(12), Some(12), Some(21)),
             RunItem(Some(21), Some(21), None)}

\* what extract_invoice_data gives: an error, or the canonical invoice
Extractions ==
    {[error |-> "Failed to parse extraction result"]}
    \cup {[invoice_header |-> [vendor_name |-> vendor], line_items |-> Numbered(items)] :
            vendor \in {None, Some("V1")}, items \in SeqsUpTo(RunItems, MaxRunItems)}

InitRun ==
    /\ pc = "start"
    /\ tie_up = FALSE
    /\ MatchingIdle
    /\ SeverityIdle
    /\ VendorIdle
    /\ ParseIdle
    /\ ReportIdle
    /\ now = 0
    /\ mapping_folder \in MappingFolders
    /\ output_folder = <<>>
    /\ saves = 0
    /\ run_result = None

\* half a second passes
Tick ==
    /\ now < MaxClock
    /\ now' = now + 1
    /\ UNCHANGED <<pc, tie_up, matchingVars, severityVars, vendorVars, parseVars,
                   reportVars, mapping_folder, output_folder, saves, run_result>>

\* one call of run_invoice_reconciliation with the default thresholds
RunInvoiceReconciliation ==
    /\ saves < MaxSaves
    /\ \E extracted \in Extractions, save_report \in BOOLEAN :
          /\ extracted_data' = extracted
          /\ \E run \in run_invoice_reconciliation(extracted, mapping_folder,
                            string_threshold, number_tolerance, save_report,
                            now, output_folder) :
                /\ run_result' = Some(run.result)
                /\ output_folder' = run.output_folder
                /\ saves' = IF run.saved THEN saves + 1 ELSE saves
    /\ pc' = "ran"
    /\ UNCHANGED <<tie_up, string_threshold, number_tolerance, ext_item, map_item,
                   match_result, mapping_data, results, best_matches, severityVars,
                   vendorVars, parseVars, reportVars, now, mapping_folder>>

NextRun == Tick \/ RunInvoiceReconciliation

SpecRun == InitRun /\ [][NextRun]_vars

\* ------------------------------------------------------------------------
\* Properties of run_invoice_reconciliation (checked under SpecRun)
\* ------------------------------------------------------------------------
RunValue == Val(run_result).value

\* C12: when no mapping records are found the run does not fail: it
\* returns status success with a warning and a fully populated result, in
\* which the match buckets, the discrepancy report, the trust score and
\* the summary counts are all present, empty or at their defaults
C12_NoMappingFullResult ==
    (/\ pc = "ran"
     /\ "error" \notin DOMAIN extracted_data
     /\ load_mapping_files(mapping_folder) = <<>>) =>
        /\ Val(run_result).outcome = "returned"
        /\ RunValue.status = "success"
        /\ "warning" \in DOMAIN RunValue
        /\ {"fuzzy_matches", "discrepancy_report", "trust_score", "summary"}
              \subseteq DOMAIN RunValue
        /\ RunValue.fuzzy_matches = EmptyResults
        /\ RunValue.discrepancy_report = <<>>
        /\ RunValue.trust_score = calculate_trust_score(EmptyResults)
        /\ RunValue.summary.fuzzy_matches = 0
        /\ RunValue.summary.discrepancies = 0
        /\ RunValue.summary.unmatched = 0

\* C14: persisted reports are append-only: every save adds a new file and
\* replaces none, so the number of stored reports equals the number of saves
C14_ReportsAppendOnly ==
    Cardinality(DOMAIN output_folder) = saves

\* ------------------------------------------------------------------------
\* SpecHistory: reconciliation runs that save their reports and vendor
\* score requests over the output folder, as time passes
\* ------------------------------------------------------------------------
\* the cell texts that read_csv takes for a missing value by default
NaStrings == {"", "#N/A", "#N/A N/A", "#NA", "-1.#IND", "-1.#QNAN", "-NaN", "-nan",
              "1.#IND", "1.#QNAN", "<NA>", "N/A", "NA", "NULL", "NaN", "None",
              "n/a", "nan", "null"}

\* one cell of the 'Vendor Name' column as read_csv parses it
ReadCell(text) == IF text \in NaStrings THEN NaN ELSE text

\* pd.read_csv of a report that save_discrepancy_report wrote: it has the
\* 'Vendor Name' column, and its rows are in the order of the frame
read_csv(path, frame) ==
    [kind |-> "ok", path |-> path,
     rows |-> [k \in 1..Len(frame) |->
                 Row(ReadCell(frame[k].Vendor_Name), frame[k].Severity)]]

\* the orders in which glob can list the reports of the folder
Listings(output) ==
    {listing \in [1..Cardinality(DOMAIN output) -> DOMAIN output] :
        \A a, b \in 1..Cardinality(DOMAIN output) : a # b => listing[a] # listing[b]}

\* the reports as calculate_vendor_score reads them; the folder does not
\* exist before the first save creates it
ReadFolder(output, listing) ==
    IF DOMAIN output = {} THEN None
    ELSE Some([k \in DOMAIN listing |-> read_csv(listing[k], output[listing[k]])])

\* the listing in path order
RECURSIVE ByPath(_)
ByPath(paths) ==
    IF paths = {} THEN <<>>
    ELSE <<CHOOSE p \in paths : \A q \in paths : p <= q>>
         \o ByPath(paths \ {CHOOSE p \in paths : \A q \in paths : p <= q})

\* invoices of the history: one line item billed as in the mapping file
\* (no discrepancy), billed 21 (CRITICAL) or billed 13 (HIGH), from a vendor
\* named V1 or named N/A on the invoice
HistoryInvoices ==
    {[invoice_header |-> [vendor_name |-> vendor], line_items |-> Numbered(<<item>>)] :
        vendor \in {Some("V1"), Some("N/A")},
        item \in RunItems \cup {RunItem(Some(13), None, Some(12))}}

\* the vendor_name arguments of the aggregation requests
AggregateArguments == {None, Some("V1")}

InitHistory ==
    /\ pc = "start"
    /\ tie_up = FALSE
    /\ MatchingIdle
    /\ SeverityIdle
    /\ VendorIdle
    /\ ParseIdle
    /\ ReportIdle
    /\ now = 0
    /\ mapping_folder = Some(<<MappingFile>>)
    /\ output_folder = <<>>
    /\ saves = 0
    /\ run_result = None

\* one call of run_invoice_reconciliation with save_report=True and the
\* default thresholds on an invoice of the history
ReconcileInvoice ==
    /\ saves < MaxSaves
    /\ \E extracted \in HistoryInvoices :
          /\ extracted_data' = extracted
          /\ \E run \in run_invoice_reconciliation(extracted, mapping_folder,
                            string_threshold, number_tolerance, TRUE,
                            now, output_folder) :
                /\ run_result' = Some(run.result)
                /\ output_folder' = run.output_folder
                /\ saves' = IF run.saved THEN saves + 1 ELSE saves
    /\ pc' = "ran"
    /\ UNCHANGED <<tie_up, string_threshold, number_tolerance, ext_item, map_item,
                   match_result, mapping_data, results, best_matches, severityVars,
                   vendorVars, parseVars, reportVars, now, mapping_folder>>

\* one call of calculate_vendor_score on the output folder as it is, with
\* the reports read recorded in path order
AggregateVendors ==
    /\ \E vendor \in AggregateArguments, listing \in Listings(output_folder) :
          /\ csv_files' = ReadFolder(output_folder, ByPath(DOMAIN output_folder))
          /\ vendor_name' = vendor
          /\ vendor_result' =
                Some(calculate_vendor_score(vendor, ReadFolder(output_folder, listing)))
    /\ pc' = "aggregated"
    /\ UNCHANGED <<tie_up, matchingVars, severityVars, otherVars>>

NextHistory == Tick \/ ReconcileInvoice \/ AggregateVendors

SpecHistory == InitHistory /\ [][NextHistory]_vars


\* ------------------------------------------------------------------------
\* SpecNormalize: one call of normalize_mapping_data on a drawn mapping record
\* ------------------------------------------------------------------------
\* a key that the dict does not have
Absent == [type |-> "absent", v |-> None]

PyInt(digits) == [type |-> "int", v |-> digits]

\* the dict holding the keys of choice that are not Absent
DictOf(choice) ==
    [key \in {k \in DOMAIN choice : choice[k].type # "absent"} |-> choice[key]]

\* the aliases of each header field, in priority order
HeaderAliases ==
    [invoice_number |-> <<"Invoice ID", "Bill Number", "Reference No.">>,
     invoice_date |-> <<"Invoice Date", "Date Issued", "Date">>,
     currency |-> <<"Currency Type", "Currency">>,
     total_amount |-> <<"Total Due", "Grand Total", "Amount">>]

\* Header blocks: the first alias of a field absent, null, falsy or set,
\* later aliases absent or set
HeaderDicts ==
    {DictOf(("Invoice ID" :> id) @@ ("Bill Number" :> bill) @@ ("Reference No." :> ref)
            @@ ("Currency Type" :> ctype) @@ ("Currency" :> cur)
            @@ ("Total Due" :> due) @@ ("Grand Total" :> total)) :
        id \in {Absent, PyNone, PyStr(<<>>), PyStr(<<"A">>)},
        bill \in {Absent, PyStr(<<"B">>)},
        ref \in {Absent, PyStr(<<"R">>)},
        ctype \in {Absent, PyStr(<<>>)},
        cur \in {Absent, PyStr(<<"U", "S", "D">>)},
        due \in {Absent, PyInt(<<"0">>), PyInt(<<"1", "2">>)},
        total \in {Absent, PyInt(<<"2", "1">>)}}

\* the Header and LineItems sections: absent, null or present
HeaderSections == {Absent, PyNone} \cup {PyDict(h) : h \in HeaderDicts}

LineItemSections ==
    {Absent, PyNone, PyList(<<>>),
     PyList(<<PyDict([Campaign |-> PyStr(<<"a", "b">>), Billed |-> PyStr(<<"1", "2">>)])>>)}

MappingRecords ==
    {PyDict(DictOf([Vendor |-> PyStr(<<"V", "1">>), Header |-> header,
                    LineItems |-> items])) :
        header \in HeaderSections, items \in LineItemSections}

InitNormalize ==
    /\ pc = "start"
    /\ tie_up = FALSE
    /\ MatchingIdle
    /\ SeverityIdle
    /\ VendorIdle
    /\ ReportIdle
    /\ RunIdle
    /\ value \in MappingRecords
    /\ parsed = None

NormalizeMappingData ==
    /\ pc = "start"
    /\ parsed' = Some(normalize_mapping_data(Val(value.v)))
    /\ pc' = "normalized"
    /\ UNCHANGED <<tie_up, matchingVars, severityVars, vendorVars, value,
                   reportVars, runVars>>

NextNormalize == NormalizeMappingData

SpecNormalize == InitNormalize /\ [][NextNormalize]_vars

\* ------------------------------------------------------------------------
\* Properties of normalize_mapping_data (checked under SpecNormalize)
\* ------------------------------------------------------------------------
Record == Val(value.v)

\* the section is missing: the key is absent or its value is null
Missing(section) == section \notin DOMAIN Record \/ Record[section].type = "NoneType"

\* C21: no error is raised when the Header or the LineItems section of a
\* mapping record is missing (key absent or value null): the header fields
\* taken from a missing Header are null, missing LineItems give an empty
\* line_items list
C21_MissingSectionsDefault ==
    (pc = "normalized" /\ (Missing("Header") \/ Missing("LineItems"))) =>
        /\ Val(parsed).outcome = "returned"
        /\ Missing("Header") =>
              \A field \in DOMAIN HeaderAliases :
                  Val(parsed).value.invoice_header[field] = PyNone
        /\ Missing("LineItems") => Val(parsed).value.line_items = <<>>

\* the value of the first alias whose value is not null, else null
RECURSIVE FirstNonNull(_, _, _)
FirstNonNull(header, aliases, k) ==
    IF k > Len(aliases) THEN PyNone
    ELSE IF DictGet(header, aliases[k], PyNone) # PyNone
    THEN DictGet(header, aliases[k], PyNone)
    ELSE FirstNonNull(header, aliases, k + 1)

\* C23: each header field is the value of the first alias of its priority
\* list whose value is not null; a present but falsy value (empty string,
\* 0) of an earlier alias wins over a later alias
C23_FirstNonNullAliasWins ==
    (/\ pc = "normalized"
     /\ "Header" \in DOMAIN Record
     /\ Record["Header"].type = "dict"
     /\ Val(parsed).outcome = "returned") =>
        \A field \in DOMAIN HeaderAliases :
            Val(parsed).value.invoice_header[field]
                = FirstNonNull(Val(Record["Header"].v), HeaderAliases[field], 1)

\* ------------------------------------------------------------------------
\* SpecOrder: the iterations of the loop of find_fuzzy_matches over the
\* extracted items, taken one item at a time in any order
\* ------------------------------------------------------------------------

\* plausible slip: the search goes on from what the previous iteration left
SearchFrom_Carried(previous, ext, mappings, threshold, tolerance) ==
    BestMatchLoop(previous, ext, mappings, 1, 1, threshold, tolerance)

\* best_match = None; best_score = 0 at the top of the iteration: what the
\* previous iteration left is dropped before the candidates are searched
SearchFrom(previous, ext, mappings, threshold, tolerance) ==
    BestMatchLoop(NoBest, ext, mappings, 1, 1, threshold, tolerance)

\* best_match / best_score as the iteration before this one left them
PreviousBest ==
    IF ext_item = NoItem THEN NoBest ELSE best_matches[Val(ext_item["line_id"])]

\* the rest of the iteration once the search of item i has ended with best
FileItem(i, best) ==
    /\ best_matches' = [k \in DOMAIN best_matches \cup {i} |->
                           IF k = i THEN best ELSE best_matches[k]]
    /\ results' = Classify(results, extracted_data.line_items[i], best)
    /\ ext_item' = extracted_data.line_items[i]
    /\ pc' = IF DOMAIN best_matches \cup {i} = 1..Len(extracted_data.line_items)
             THEN "searched" ELSE "searching"

\* the corpora of one or two mapping records
OrderMappingInputs == {m \in MappingInputs : Len(m) \in {1, 2}}

InitOrder ==
    /\ pc = "start"
    /\ SeverityIdle
    /\ VendorIdle
    /\ OtherIdle
    /\ tie_up = FALSE
    /\ string_threshold = 80
    /\ number_tolerance = 5
    /\ extracted_data \in ExtractedInputs
    /\ mapping_data \in OrderMappingInputs
    /\ results = EmptyResults
    /\ best_matches = <<>>
    /\ ext_item = NoItem
    /\ map_item = NoItem
    /\ match_result = None

\* one iteration of for ext_item in extracted_items, on any item not yet taken
SearchItem ==
    /\ pc \in {"start", "searching"}
    /\ \E i \in (1..Len(extracted_data.line_items)) \ DOMAIN best_matches :
          FileItem(i, SearchFrom(PreviousBest, extracted_data.line_items[i], mapping_data,
                                 string_threshold, number_tolerance))
    /\ UNCHANGED <<tie_up, string_threshold, number_tolerance, map_item, match_result,
                   extracted_data, mapping_data, severityVars, vendorVars, otherVars>>

NextOrder == SearchItem

SpecOrder == InitOrder /\ [][NextOrder]_vars

\* ------------------------------------------------------------------------
\* Properties of the iterations in any order (checked under SpecOrder)
\* ------------------------------------------------------------------------
Entries(bucket) == {bucket[k] : k \in 1..Len(bucket)}

\* the buckets hold the same entries, in whatever order
SameEntries(res, other) ==
    /\ Entries(res.fuzzy_matches) = Entries(other.fuzzy_matches)
    /\ Entries(res.potential_discrepancies) = Entries(other.potential_discrepancies)
    /\ Entries(res.no_match_found) = Entries(other.no_match_found)
    /\ Len(res.fuzzy_matches) = Len(other.fuzzy_matches)
    /\ Len(res.potential_discrepancies) = Len(other.potential_discrepancies)
    /\ Len(res.no_match_found) = Len(other.no_match_found)

\* the entries that item i has in the buckets
EntriesOf(res, i) ==
    {e \in Entries(res.fuzzy_matches) \cup Entries(res.potential_discrepancies)
             \cup Entries(res.no_match_found) : e.extracted_line = Some(i)}

\* what find_fuzzy_matches gives for item i alone
Alone(i) ==
    find_fuzzy_matches([line_items |-> <<extracted_data.line_items[i]>>], mapping_data,
                       string_threshold, number_tolerance)

\* C22: the bucket and the selected candidate of an extracted item depend
\* on that item and the mapping records only: when the items have been
\* taken in any order, every item has the entries it has when it is
\* processed alone, the buckets hold the entries of the pass in list order,
\* and no step changes the extracted or the mapping data
C22_PerItemResultsOrderIndependent ==
    /\ [](pc = "searched" =>
            /\ SameEntries(results, find_fuzzy_matches(extracted_data, mapping_data,
                                                       string_threshold, number_tolerance))
            /\ \A i \in 1..Len(extracted_data.line_items) :
                  EntriesOf(results, i) = EntriesOf(Alone(i), i))
    /\ [][extracted_data' = extracted_data /\ mapping_data' = mapping_data]_vars

\* the second item was taken first; the two items selected different
\* candidates, one of them with a discrepancy
C22_Witness ==
    /\ pc = "searched"
    /\ Len(extracted_data.line_items) = 2
    /\ Len(results.fuzzy_matches) = 2
    /\ results.fuzzy_matches[1].extracted_line = Some(2)
    /\ results.fuzzy_matches[2].extracted_line = Some(1)
    /\ results.fuzzy_matches[1].mapping_line # results.fuzzy_matches[2].mapping_line
    /\ Len(results.potential_discrepancies) = 1
    /\ ext_item = extracted_data.line_items[1]

\* ------------------------------------------------------------------------
\* Properties of the pipeline of a run (checked under SpecRun)
\* ------------------------------------------------------------------------
Revenues == {"gross_revenue", "net_revenue"}

\* the run went through normalize_mapping_data and find_fuzzy_matches
Reconciled ==
    /\ pc = "ran"
    /\ Val(run_result).outcome = "returned"
    /\ "mapping_files_count" \in DOMAIN RunValue

\* the best matches filed by a complete run
RunMatches ==
    Entries(RunValue.fuzzy_matches.fuzzy_matches)
    \cup Entries(RunValue.fuzzy_matches.potential_discrepancies)

\* the line items of the normalized records of the mapping folder
NormalizedLineItems ==
    UNION {Entries(normalize_mapping_data(load_mapping_files(mapping_folder)[k])
                       .value.line_items) :
              k \in 1..Len(load_mapping_files(mapping_folder))}

\* C27: gross_revenue and net_revenue are never compared in a run: the
\* normalized mapping line items carry neither, so whatever the extracted
\* revenues are, the two fields are in no matched_fields list and in no
\* discrepancy
C27_RevenuesNeverCompared ==
    Reconciled =>
        /\ \A item \in NormalizedLineItems : \A f \in Revenues : item[f] = None
        /\ \A e \in RunMatches :
              /\ \A k \in 1..Len(e.match_details.matched_fields) :
                    e.match_details.matched_fields[k] \notin Revenues
              /\ \A k \in 1..Len(e.match_details.discrepancies) :
                    e.match_details.discrepancies[k].field \notin Revenues

\* a run whose item has both revenues, one equal to the mapping file's and
\* one different, is matched on its billed impressions
C27_Witness ==
    /\ Reconciled
    /\ Len(extracted_data.line_items) = 1
    /\ extracted_data.line_items[1]["gross_revenue"] = Some(12)
    /\ extracted_data.line_items[1]["net_revenue"] = Some(21)
    /\ Len(RunValue.fuzzy_matches.fuzzy_matches) = 1
    /\ \E k \in 1..Len(RunValue.fuzzy_matches.fuzzy_matches[1].match_details.matched_fields) :
          RunValue.fuzzy_matches.fuzzy_matches[1].match_details.matched_fields[k]
             = "billed_impressions"

\* ------------------------------------------------------------------------
\* Properties of the vendor scores over the reports of the runs (checked
\* under SpecHistory)
\* ------------------------------------------------------------------------
\* the vendor_scores of an aggregation, empty when there is none
ListedIn(result) ==
    IF result = None \/ Val(result).outcome # "returned" THEN {}
    ELSE Entries(Val(result).value.vendor_scores)

\* every report read by the last aggregation is read again, unchanged
ReportsKept ==
    /\ csv_files # None
    /\ csv_files' # None
    /\ \A i \in 1..Len(Val(csv_files)) :
          \E j \in 1..Len(Val(csv_files')) : Val(csv_files')[j] = Val(csv_files)[i]

\* C28: as reports are appended to the output folder over the runs, none
\* removed or changed, the score of a vendor never increases from one
\* aggregation to the next
C28_ScoreNeverIncreases ==
    [][(pc' = "aggregated" /\ ReportsKept) =>
          \A before \in ListedIn(vendor_result), after \in ListedIn(vendor_result') :
              before.vendor_name = after.vendor_name => after.score <= before.score]_vars

\* an aggregation over two reports: V1 has a CRITICAL row in the older one
\* and a HIGH row in the newer one
C28_Witness ==
    /\ pc = "aggregated"
    /\ csv_files # None
    /\ Len(Val(csv_files)) = 2
    /\ \E i, j \in 1..2 :
          /\ Val(csv_files)[i].path < Val(csv_files)[j].path
          /\ Val(csv_files)[i].rows = <<Row("V1", "CRITICAL")>>
          /\ Val(csv_files)[j].rows = <<Row("V1", "HIGH")>>
    /\ \E e \in ListedIn(vendor_result) :
          e.vendor_name = "V1" /\ e.score = 77 /\ e.total_discrepancies = 2

\* C29: a run saves a report only when it has a discrepancy row, so every
\* vendor listed by an aggregation over the reports of the runs has at
\* least one discrepancy and a score of at most 99
C29_ListedVendorsHaveDiscrepancies ==
    pc = "aggregated" =>
        \A e \in ListedIn(vendor_result) : e.total_discrepancies >= 1 /\ e.score <= 99

====
